---- MODULE Spec2Model ----
(***************************************************************************)
(* Matching and interaction engine of the Legal Mentors Network backend:   *)
(* the swipe endpoint (POST /users/:userId/swipes) with its mutual-match   *)
(* detection, run by concurrent request handlers over the PocketBase       *)
(* record store, and the compatibility filter findMatches.                 *)
(*                                                                         *)
(* User ids are modelled as the integers 1..NumUsers, ordered by <, which  *)
(* stands for the code-unit ordering Array.prototype.sort applies to the   *)
(* id strings.  Every await of a handler that touches a mutable collection *)
(* is an interleaving point; reads of the user_for_match view, which no    *)
(* operation of the engine writes, commute with every other step and are   *)
(* folded into the neighbouring step, so a request is seen first at its    *)
(* user_swipes create call, which the store executes atomically.           *)
(* A user_swipes row is identified by its key fields: its generated       *)
(* record id takes no part in any decision and is left out.  A matches row *)
(* carries the id the store gives it, the next free number.  A user_swipes *)
(* row carries its created time and a matches row its matchedAt time, the  *)
(* value of the clock `now` at the create call; the                        *)
(* clock stands still in the specifications whose handlers never read a    *)
(* time.  Handlers are anonymous:                                          *)
(* a request always takes the lowest free slot, and a finished handler     *)
(* hands its response to `last` and frees its slot.                        *)
(*                                                                         *)
(* The discovery feed (GET /users/:userId/discovery) reads one mutable     *)
(* collection, user_swipes, in one call and writes nothing: it is a single *)
(* step.  The legacy GET /match/:id is split at the getConnection call of  *)
(* saveMatches.  Both answer through `last` as well.  The store lists the  *)
(* rows of user_for_match in one fixed order, modelled as ascending id.    *)
(* The pure parts are checked on specifications of their own, whose Init   *)
(* draws the inputs: SpecCompat and SpecPool for findMatches, SpecFeed and *)
(* SpecPage for the feed over drawn users and swipe rows.                  *)
(*                                                                         *)
(* GET /users/:userId/likes/incoming reads user_swipes twice and is split  *)
(* between the two reads; GET /users/:userId/matches reads matches once.   *)
(* SpecLikes runs the likes route over drawn swipe rows with creation      *)
(* times, SpecConnections the legacy route while users are added,          *)
(* SpecCompare the legacy and the discovery route for one user, and        *)
(* SpecStore all the routes over one store.                                *)
(*                                                                         *)
(* POST /profiles is split between the look-up of an existing profile and  *)
(* the create call (SpecProfiles), SpecMatches runs the matches route over *)
(* drawn match rows.  A client that pages through the feed is followed in  *)
(* `walk`: SpecWalk has it read only, SpecSwipeWalk has it swipe on every  *)
(* profile of a page.  SpecLikeBack has a client like back the users of    *)
(* its incoming likes while the others swipe, SpecAnyPair runs the swipe   *)
(* endpoint between users of any role and age.                             *)
(***************************************************************************)
EXTENDS Integers, Sequences, FiniteSets, TLC

\* ---------------------------------------------------------------- bounds
NumUsers == 2
MaxSlots == 2
MaxRequests == 3
AgeSpan == 2
MaxPos == 2
MaxDistancePref == 2
MaxPoolLen == 3
NumProfiles == 3
MaxFeedSwipes == 1
MaxLimitInput == 2
MaxOffsetInput == 2
MaxLegacyRequests == 2
MaxEngineRequests == 2
MaxConnectionRequests == 3
MaxCompareRequests == 1
MaxLikeRows == 3
MaxTime == 2
MaxMatchRows == 3
MaxProfileRequests == 2

\* ------------------------------------------------------------ identifiers
UserIds == 1..NumUsers
\* an id that no row of user_for_match carries
GhostId == NumUsers + 1
\* the empty / absent profileId of a malformed body
MissingId == 0
Slots == 1..MaxSlots

\* z.enum(['like', 'pass'])
swipeActionSchema == {"like", "pass"}
\* what a client may send as action
ActionInputs == swipeActionSchema \cup {"superlike"}

VARIABLES
    user_swipes,   \* rows of the user_swipes collection
    matches,       \* rows of the matches collection
    req,           \* the request handler running in each slot
    last,          \* the handler that finished most recently, with its response
    nreq,          \* number of requests received so far
    cmpA, cmpB,    \* the two users handed to the compatibility filter
    cmpAB, cmpBA,  \* findMatches(cmpA, [cmpB]) and findMatches(cmpB, [cmpA]) non-empty
    cmpPc,         \* position of the compatibility evaluation
    pool,          \* the users handed to findMatches as candidates of cmpA
    found,         \* findMatches(cmpA, pool)
    user_for_match, \* rows of the user_for_match view, in the order the store lists them
    connections,   \* rows of the connections collection, in creation order
    leg,           \* the GET /match/:id handler running in each slot
    now,           \* the time of the server's clock
    lk,            \* the GET /users/:userId/likes/incoming handler that is running
    profilesCollection, \* rows of the profiles collection
    prof,          \* the POST /profiles handler running in each slot
    walk           \* a client that pages through the discovery feed

vars == <<user_swipes, matches, req, last, nreq, cmpA, cmpB, cmpAB, cmpBA, cmpPc,
          pool, found, user_for_match, connections, leg, now, lk,
          profilesCollection, prof, walk>>
storeVars == <<user_swipes, matches, req, last, nreq>>
cmpVars == <<cmpA, cmpB, cmpAB, cmpBA, cmpPc, pool, found>>
feedVars == <<user_for_match, connections, leg>>
likeVars == <<now, lk>>
profVars == <<profilesCollection, prof>>
clientVars == <<walk>>

\* ------------------------------------------------------------------ rows
NoSwipe == [user |-> 0, profile |-> 0, action |-> "", created |-> 0]
NoMatch == [id |-> 0, user1 |-> 0, user2 |-> 0, matchedAt |-> 0,
            conversationStarted |-> FALSE, profile |-> 0]

IdleReq == [pc |-> "idle", userId |-> 0, profileId |-> 0, action |-> "",
            swipe |-> NoSwipe, theirSwipe |-> FALSE,
            status |-> 0, match |-> NoMatch, message |-> "", error |-> ""]

\* a look-up that resolves mentors only
UserExists_MentorsOnly(id) ==
    id \in DOMAIN user_for_match /\ user_for_match[id].role = "Mentor"
\* getUserById resolves exactly the ids of user_for_match
UserExists(id) == id \in DOMAIN user_for_match

\* ---------------------------------------------------------- record store
\* CREATE UNIQUE INDEX idx_user_swipes_unique ON user_swipes (user, profile)
SwipeUniqueViolated_NoIndex(u, p) == FALSE
SwipeUniqueViolated(u, p) ==
    \E s \in user_swipes : s.user = u /\ s.profile = p

\* CREATE UNIQUE INDEX idx_matches_unique ON matches (user1, user2)
MatchUniqueViolated(u1, u2) ==
    \E m \in matches : m.user1 = u1 /\ m.user2 = u2

\* a create call that keeps only the new row
create_Truncating(collection, row) == {row}
\* pb.collection(...).create(row): the collection has one more row
create(collection, row) == collection \cup {row}

\* the ClientResponseError PocketBase raises for a violated unique index
UniqueError(fields) == [status |-> 400, data |-> fields]

\* ------------------------------------------------------- swipe handler
\* a body check that lets every body through
ValidBody_Lenient(p, a) == TRUE
\* swipeRequestSchema.safeParse(body).success
ValidBody(p, a) == p # MissingId /\ a \in swipeActionSchema

\* error instanceof ClientResponseError && error.status === 400 &&
\* errorData && (errorData.user || errorData.profile)
IsDuplicateSwipe(err) ==
    err.status = 400 /\ (("user" \in err.data) \/ ("profile" \in err.data))

\* the handler's state once the duplicate swipe is reported
SwipeConflict_Continue(q) ==
    [q EXCEPT !.pc = IF q.action = "like" THEN "checkMutual" ELSE "done",
              !.status = IF q.action = "like" THEN 0 ELSE 200]
SwipeConflict(q) ==
    [q EXCEPT !.pc = "done", !.status = 409,
              !.error = "Already swiped this profile"]

\* if (action === 'like') match = await checkMutualMatch(userId, profileId)
NeedsMatchCheck_Always(a) == TRUE
NeedsMatchCheck(a) == a = "like"

\* a filter that finds the reverse like only for the user with the higher id
TheirSwipeFilter_LowerLikerOnly(s, userId, profileId) ==
    s.user = profileId /\ s.profile = userId /\ s.action = "like" /\ s.user <= s.profile
\* filter `user = "${profileId}" AND profile = "${userId}" AND action = "like"`
TheirSwipeFilter_AnyAction(s, userId, profileId) ==
    s.user = profileId /\ s.profile = userId
TheirSwipeFilter_OwnSwipe(s, userId, profileId) ==
    s.user = userId /\ s.profile = profileId /\ s.action = "like"
TheirSwipeFilter(s, userId, profileId) ==
    s.user = profileId /\ s.profile = userId /\ s.action = "like"

\* [userId, profileId].sort()
SortPair_Unsorted(a, b) == <<a, b>>
SortPair(a, b) == IF b < a THEN <<b, a>> ELSE <<a, b>>

\* message: match ? "It's a match!" : 'Swipe recorded'
MessageFor(m) == IF m # NoMatch THEN "It's a match!" ELSE "Swipe recorded"

\* the 200 response of the swipe handler
Respond(q, m) ==
    [q EXCEPT !.pc = "done", !.status = 200, !.match = m, !.message = MessageFor(m)]

\* an error handler that answers every error as a success
Fail_AsSuccess(q, status, text) ==
    [q EXCEPT !.pc = "done", !.status = 200, !.message = "Swipe recorded"]

\* the response app.onError gives for an error of the given class
Fail(q, status, text) ==
    [q EXCEPT !.pc = "done", !.status = status, !.error = text]

\* ------------------------------------------------- compatibility filter
\* age: z.number().int().min(18)
MinAllowedAge == 18
Ages == MinAllowedAge..(MinAllowedAge + AgeSpan)
\* locations are points of a line, one unit = 1 km
Positions == 0..MaxPos

\* users as findMatches sees them; minAge <= maxAge is enforced when the
\* profile is created
CompatUsers ==
    {u \in [age : Ages, minAge : Ages, maxAge : Ages,
            maxDistance : 0..MaxDistancePref, pos : Positions] :
        u.minAge <= u.maxAge}

\* haversine(a, b) / 1000: the distance in km, symmetric and non-negative
DistanceInKm(a, b) == IF a.pos < b.pos THEN b.pos - a.pos ELSE a.pos - b.pos

\* a distance check that reads maxDistance 0 as a limit of 0 km
isWithinRange_ZeroIsLimit(currentUser, user) ==
    /\ DistanceInKm(currentUser, user) <= currentUser.maxDistance
    /\ DistanceInKm(currentUser, user) <= user.maxDistance

isWithinRange(currentUser, user) ==
    IF currentUser.maxDistance = 0 THEN TRUE
    ELSE IF DistanceInKm(currentUser, user) > currentUser.maxDistance THEN FALSE
    ELSE IF user.maxDistance = 0 THEN TRUE
    ELSE IF DistanceInKm(currentUser, user) > user.maxDistance THEN FALSE
    ELSE TRUE

\* a filter callback whose age ranges leave out their end points
MatchesUser_ExclusiveAge(currentUser, user) ==
    /\ currentUser.minAge < user.age /\ user.age < currentUser.maxAge
    /\ user.minAge < currentUser.age /\ currentUser.age < user.maxAge
    /\ isWithinRange(currentUser, user)

\* the callback of users.filter in findMatches
MatchesUser(currentUser, user) ==
    IF user.age < currentUser.minAge \/ user.age > currentUser.maxAge THEN FALSE
    ELSE IF currentUser.age < user.minAge \/ currentUser.age > user.maxAge THEN FALSE
    ELSE IF ~isWithinRange(currentUser, user) THEN FALSE
    ELSE TRUE

\* a filter that hands the kept users back in reverse order
findMatches_Reversed(currentUser, users) ==
    LET Keep(user) == MatchesUser(currentUser, user)
        kept == SelectSeq(users, Keep)
    IN [i \in 1..Len(kept) |-> kept[Len(kept) + 1 - i]]

findMatches(currentUser, users) ==
    LET Keep(user) == MatchesUser(currentUser, user)
    IN SelectSeq(users, Keep)

\* ------------------------------------------------------ user_for_match
\* z.enum(['Mentor', 'Mentee'])
roleSchema == {"Mentor", "Mentee"}

\* a row of user_for_match as transformUser returns it
UserRow(i, role, age, minAge, maxAge, maxDistance, pos) ==
    [id |-> i, role |-> role, age |-> age, minAge |-> minAge, maxAge |-> maxAge,
     maxDistance |-> maxDistance, pos |-> pos]

\* the users of the swipe tests: mentors and mentees in turn, all of one
\* age and place, accepting every age, without a distance limit
StandardUsers ==
    [i \in UserIds |->
        UserRow(i, IF i % 2 = 1 THEN "Mentor" ELSE "Mentee", MinAllowedAge,
                MinAllowedAge, MinAllowedAge + AgeSpan, 0, 0)]

\* no client is paging through the feed
NoWalk == [pc |-> "off", swipes |-> FALSE, limit |-> 0, offset |-> 0,
           page |-> <<>>, shown |-> <<>>]

\* the handler of POST /profiles before it is started
IdleProfile == [pc |-> "idle", userId |-> 0, profileData |-> <<>>]

\* the handler of GET /users/:userId/likes/incoming before it is started
IdleLikes == [pc |-> "idle", userId |-> 0, incomingLikes |-> <<>>]

\* getConnection found no row
NoConnection == [id |-> 0, initiator |-> 0, connections |-> <<>>]
\* the handler of GET /match/:id before it is started
IdleLeg == [pc |-> "idle", userId |-> 0, matchedUserIds |-> <<>>,
            existingConnection |-> NoConnection]

\* the handler in slot r moves on to q1; a finished handler frees its slot
Step(r, q1) ==
    IF q1.pc = "done"
    THEN req' = [req EXCEPT ![r] = IdleReq] /\ last' = q1
    ELSE req' = [req EXCEPT ![r] = q1] /\ UNCHANGED last

\* ---------------------------------------------------------------- Init
Init ==
    /\ user_swipes = {}
    /\ matches = {}
    /\ req = [r \in Slots |-> IdleReq]
    /\ last = IdleReq
    /\ nreq = 0
    /\ cmpA = 0 /\ cmpB = 0 /\ cmpAB = FALSE /\ cmpBA = FALSE /\ cmpPc = "off"
    /\ pool = <<>> /\ found = <<>>
    /\ user_for_match = StandardUsers
    /\ connections = <<>>
    /\ leg = [r \in Slots |-> IdleLeg]
    /\ now = 0 /\ lk = IdleLikes
    /\ profilesCollection = {} /\ prof = [r \in Slots |-> IdleProfile]
    /\ walk = NoWalk

\* the call pb.collection('user_swipes').create({user, profile, action}) of
\* the handler q and what the handler does with its outcome: a duplicate is
\* answered 409, a pass is answered at once, a like goes on to
\* checkMutualMatch
CreateSwipe(r, q) ==
    IF SwipeUniqueViolated(q.userId, q.profileId)
    THEN /\ IF IsDuplicateSwipe(UniqueError({"user", "profile"}))
            THEN Step(r, SwipeConflict(q))
            ELSE Step(r, Fail(q, 500, "Internal server error"))
         /\ UNCHANGED user_swipes
    ELSE LET row == [user |-> q.userId, profile |-> q.profileId, action |-> q.action,
                     created |-> now]
             q1 == [q EXCEPT !.swipe = row]
         IN /\ user_swipes' = create(user_swipes, row)
            /\ Step(r, IF NeedsMatchCheck(q.action)
                        THEN [q1 EXCEPT !.pc = "checkMutual"]
                        ELSE Respond(q1, NoMatch))

\* POST /users/:userId/swipes up to its first write: body validation
\* (profileId and action are bound only once it succeeded), the look-up of
\* both users, then the swipe is created
Post(r, u, p, a) ==
    /\ req[r].pc = "idle"
    /\ \A r0 \in Slots : r0 < r => req[r0].pc # "idle"
    /\ nreq < MaxRequests
    /\ nreq' = nreq + 1
    /\ LET q == [IdleReq EXCEPT !.userId = u, !.profileId = p, !.action = a]
       IN IF ~ValidBody(p, a)
          THEN /\ Step(r, Fail([IdleReq EXCEPT !.userId = u], 400, "Invalid request body"))
               /\ UNCHANGED user_swipes
          ELSE IF ~UserExists(u)
          THEN /\ Step(r, Fail(q, 404, "User not found"))
               /\ UNCHANGED user_swipes
          ELSE IF ~UserExists(p)
          THEN /\ Step(r, Fail(q, 404, "Profile not found"))
               /\ UNCHANGED user_swipes
          ELSE CreateSwipe(r, q)
    /\ UNCHANGED matches
    /\ UNCHANGED <<clientVars, profVars, cmpVars, feedVars, likeVars>>

\* checkMutualMatch: getFirstListItem on the reverse like; a 404 is caught
\* and answered with match = null
CheckTheirSwipe(r) ==
    LET q == req[r] IN
    /\ q.pc = "checkMutual"
    /\ IF \E s \in user_swipes : TheirSwipeFilter(s, q.userId, q.profileId)
       THEN Step(r, [q EXCEPT !.pc = "createMatch", !.theirSwipe = TRUE])
       ELSE Step(r, Respond(q, NoMatch))
    /\ UNCHANGED <<user_swipes, matches, nreq>>
    /\ UNCHANGED <<clientVars, profVars, cmpVars, feedVars, likeVars>>

\* checkMutualMatch: pb.collection('matches').create(...) with the sorted
\* pair, then the profile of the other party; any error but a 404 is
\* rethrown and reaches app.onError
CreateMatch(r) ==
    LET q == req[r]
        pair == SortPair(q.userId, q.profileId)
    IN
    /\ q.pc = "createMatch"
    /\ IF MatchUniqueViolated(pair[1], pair[2])
       THEN /\ IF UniqueError({"user1", "user2"}).status = 404
               THEN Step(r, Respond(q, NoMatch))
               ELSE Step(r, Fail(q, 500, "Internal server error"))
            /\ UNCHANGED matches
       ELSE LET row == [id |-> Cardinality(matches) + 1,
                        user1 |-> pair[1], user2 |-> pair[2],
                        matchedAt |-> now, conversationStarted |-> FALSE]
            IN /\ matches' = create(matches, row)
               /\ Step(r, Respond(q,
                     [id |-> row.id, user1 |-> row.user1, user2 |-> row.user2,
                      matchedAt |-> row.matchedAt,
                      conversationStarted |-> row.conversationStarted,
                      profile |-> q.profileId]))
    /\ UNCHANGED <<user_swipes, nreq>>
    /\ UNCHANGED <<clientVars, profVars, cmpVars, feedVars, likeVars>>

Next ==
    \/ \E r \in Slots : \E u \in UserIds \cup {GhostId} :
         \E p \in UserIds \cup {GhostId, MissingId} : \E a \in ActionInputs :
           Post(r, u, p, a)
    \/ \E r \in Slots : CheckTheirSwipe(r)
    \/ \E r \in Slots : CreateMatch(r)

Spec == Init /\ [][Next]_vars

\* ------------------------------------ the compatibility filter on its own
InitCompat ==
    /\ user_swipes = {}
    /\ matches = {}
    /\ req = [r \in Slots |-> IdleReq]
    /\ last = IdleReq
    /\ nreq = 0
    /\ cmpA \in CompatUsers
    /\ cmpB \in CompatUsers
    /\ cmpAB = FALSE /\ cmpBA = FALSE
    /\ cmpPc = "ready"
    /\ pool = <<>> /\ found = <<>>
    /\ user_for_match = <<>>
    /\ connections = <<>>
    /\ leg = [r \in Slots |-> IdleLeg]
    /\ now = 0 /\ lk = IdleLikes
    /\ profilesCollection = {} /\ prof = [r \in Slots |-> IdleProfile]
    /\ walk = NoWalk

\* findMatches is applied in both directions to the pair
Evaluate ==
    /\ cmpPc = "ready"
    /\ cmpAB' = (findMatches(cmpA, <<cmpB>>) # <<>>)
    /\ cmpBA' = (findMatches(cmpB, <<cmpA>>) # <<>>)
    /\ cmpPc' = "done"
    /\ UNCHANGED <<cmpA, cmpB, pool, found>>
    /\ UNCHANGED <<storeVars, feedVars, likeVars, profVars, clientVars>>

NextCompat == Evaluate

SpecCompat == InitCompat /\ [][NextCompat]_vars

\* ------------------------------------- the filter on a pool of candidates
\* candidates that differ in age only, and current users that differ in age
\* and in the ages they accept; nobody has a distance limit
PoolCandidates ==
    {u \in CompatUsers : /\ u.maxDistance = 0 /\ u.pos = 0
                         /\ u.minAge = MinAllowedAge
                         /\ u.maxAge = MinAllowedAge + AgeSpan}
PoolCurrentUsers == {u \in CompatUsers : u.maxDistance = 0 /\ u.pos = 0}
\* the pools: every list of candidates up to MaxPoolLen entries, repeated
\* entries included
Pools == UNION {[1..n -> PoolCandidates] : n \in 0..MaxPoolLen}

InitPool ==
    /\ user_swipes = {}
    /\ matches = {}
    /\ req = [r \in Slots |-> IdleReq]
    /\ last = IdleReq
    /\ nreq = 0
    /\ cmpA \in PoolCurrentUsers
    /\ cmpB = 0 /\ cmpAB = FALSE /\ cmpBA = FALSE
    /\ cmpPc = "pool"
    /\ pool \in Pools
    /\ found = <<>>
    /\ user_for_match = <<>>
    /\ connections = <<>>
    /\ leg = [r \in Slots |-> IdleLeg]
    /\ now = 0 /\ lk = IdleLikes
    /\ profilesCollection = {} /\ prof = [r \in Slots |-> IdleProfile]
    /\ walk = NoWalk

\* const matches = findMatches(currentUser, potentialMatches)
FilterPool ==
    /\ cmpPc = "pool"
    /\ found' = findMatches(cmpA, pool)
    /\ cmpPc' = "filtered"
    /\ UNCHANGED <<cmpA, cmpB, cmpAB, cmpBA, pool>>
    /\ UNCHANGED <<storeVars, feedVars, likeVars, profVars, clientVars>>

NextPool == FilterPool

SpecPool == InitPool /\ [][NextPool]_vars

\* ------------------------------------------------------ discovery feed
\* .default(20), Math.min(val, 50) and .default(0) of queryParamsSchema
DefaultLimit == 20
MaxPageSize == 50
\* a default that goes on where the previous response ended
DefaultOffset_Cursor == IF "nextOffset" \in DOMAIN last THEN last.nextOffset ELSE 0
DefaultOffset == 0

\* a query parameter is absent (<<>>) or present with a value (<<v>>)
Optional(S) == {<<>>} \cup {<<v>> : v \in S}
\* the values a client sends as limit and as offset: integers from -1 on,
\* for limit also one above the largest page, for offset also the three
\* around the largest page
LimitInputs == ((-1)..MaxLimitInput) \cup {MaxPageSize + 1}
OffsetInputs == ((-1)..MaxOffsetInput) \cup ((MaxPageSize - 1)..(MaxPageSize + 1))
Queries == [limit : Optional(LimitInputs), offset : Optional(OffsetInputs)]
\* the request without query parameters
NoQuery == [limit |-> <<>>, offset |-> <<>>]

Min(a, b) == IF a < b THEN a ELSE b

\* a schema that takes every limit and offset
QueryValid_AcceptsAll(query) == TRUE
\* queryParamsSchema.safeParse(queryParams).success
QueryValid(query) ==
    /\ query.limit # <<>> => query.limit[1] >= 1
    /\ query.offset # <<>> => query.offset[1] >= 0
\* the limit and offset of queryValidation.data
ParsedLimit(query) ==
    Min(IF query.limit = <<>> THEN DefaultLimit ELSE query.limit[1], MaxPageSize)
ParsedOffset(query) ==
    IF query.offset = <<>> THEN DefaultOffset ELSE query.offset[1]

\* getUserById(id) for an id that exists
getUserById(id) == user_for_match[id]
\* getUsersByRole(role): the rows of that role in the order of the store
getUsersByRole(role) ==
    LET HasRole(user) == user.role = role
    IN SelectSeq(user_for_match, HasRole)
getMentors == getUsersByRole("Mentor")
getMentees == getUsersByRole("Mentee")

\* a pool that holds every user, whatever the role
potentialMatches_AnyRole(currentUser) == user_for_match
\* the switch on currentUser.role
potentialMatches(currentUser) ==
    IF currentUser.role = "Mentee" THEN getMentors
    ELSE IF currentUser.role = "Mentor" THEN getMentees
    ELSE <<>>

\* a look-up that takes only likes for swipes
swipedProfileIds_LikesOnly(userId) ==
    {r.profile : r \in {s \in user_swipes : s.user = userId /\ s.action = "like"}}
\* getFullList({filter: `user = "${userId}"`}).map(r => r.profile)
swipedProfileIds(userId) ==
    {r.profile : r \in {s \in user_swipes : s.user = userId}}

\* algorithmMatches.filter(user => !swipedProfileIds.includes(user.id))
availableMatches(userId) ==
    LET algorithmMatches ==
            findMatches(getUserById(userId), potentialMatches(getUserById(userId)))
        NotSwiped(user) == user.id \notin swipedProfileIds(userId)
    IN SelectSeq(algorithmMatches, NotSwiped)

\* Array.prototype.slice(start, end): a negative index counts from the end
slice(seq, start, end) ==
    LET Index(x) == IF x < 0 THEN (IF Len(seq) + x < 0 THEN 0 ELSE Len(seq) + x)
                    ELSE Min(x, Len(seq))
        from == Index(start)
        to == Index(end)
    IN [k \in 1..(to - from) |-> seq[from + k]]

\* a next offset that leaves one profile out between two pages
nextOffset_SkipsOne(hasMore, limit, offset) ==
    IF hasMore THEN offset + limit + 1 ELSE offset
\* a next offset that always moves on by one page
nextOffset_AlwaysAdvance(hasMore, limit, offset) == offset + limit
\* const nextOffset = hasMore ? offset + limit : offset
nextOffset(hasMore, limit, offset) == IF hasMore THEN offset + limit ELSE offset

\* what the discovery handler answers
DiscoveryResponse(userId, query, status, error, profiles, hasMore, next, total) ==
    [pc |-> "done", route |-> "discovery", userId |-> userId, query |-> query,
     status |-> status, error |-> error, profiles |-> profiles,
     hasMore |-> hasMore, nextOffset |-> next, total |-> total]
DiscoveryFail(userId, query, status, error) ==
    DiscoveryResponse(userId, query, status, error, <<>>, FALSE, 0, 0)
\* q is an answer of the discovery handler
IsDiscovery(q) == "route" \in DOMAIN q /\ q.route = "discovery"

\* GET /users/:userId/discovery.  user_swipes is the one mutable collection
\* the handler reads, in a single getFullList, and it writes nothing: the
\* request is one step.
Discover(userId, query) ==
    /\ last' =
         IF ~QueryValid(query)
         THEN DiscoveryFail(userId, query, 400, "Invalid query parameters.")
         ELSE IF ~UserExists(userId)
         THEN DiscoveryFail(userId, query, 404, "User not found")
         ELSE LET limit == ParsedLimit(query)
                  offset == ParsedOffset(query)
                  available == availableMatches(userId)
                  total == Len(available)
                  hasMore == offset + limit < total
              IN DiscoveryResponse(userId, query, 200, "",
                                   slice(available, offset, offset + limit),
                                   hasMore, nextOffset(hasMore, limit, offset), total)
    /\ UNCHANGED <<user_swipes, matches, req, nreq>>
    /\ UNCHANGED <<clientVars, profVars, cmpVars, feedVars, likeVars>>

\* users that differ in role and age; each accepts the lowest age only
FeedProfiles ==
    {UserRow(0, role, age, MinAllowedAge, MinAllowedAge, 0, 0) :
        role \in roleSchema, age \in {MinAllowedAge, MinAllowedAge + 1}}
ProfileIds == 1..NumProfiles
\* an id that no row of user_for_match carries
UnknownProfileId == NumProfiles + 1
FeedPopulations ==
    {[i \in ProfileIds |-> [f[i] EXCEPT !.id = i]] : f \in [ProfileIds -> FeedProfiles]}

\* the contents user_swipes can have with up to n rows of the given actors
\* and targets: one row at most for an ordered pair of users
RECURSIVE SwipeTables(_, _, _)
SwipeTables(n, actors, targets) ==
    IF n = 0 THEN {{}}
    ELSE LET smaller == SwipeTables(n - 1, actors, targets)
         IN smaller \cup
            {t \cup {[user |-> u, profile |-> p, action |-> a, created |-> 0]} :
                <<t, u, p, a>> \in
                    {x \in smaller \X actors \X targets \X swipeActionSchema :
                        \A s \in x[1] : ~(s.user = x[2] /\ s.profile = x[3])}}

InitFeed ==
    /\ user_swipes \in SwipeTables(MaxFeedSwipes, ProfileIds, ProfileIds)
    /\ matches = {}
    /\ req = [r \in Slots |-> IdleReq]
    /\ last = IdleReq
    /\ nreq = 0
    /\ cmpA = 0 /\ cmpB = 0 /\ cmpAB = FALSE /\ cmpBA = FALSE /\ cmpPc = "off"
    /\ pool = <<>> /\ found = <<>>
    /\ user_for_match \in FeedPopulations
    /\ connections = <<>>
    /\ leg = [r \in Slots |-> IdleLeg]
    /\ now = 0 /\ lk = IdleLikes
    /\ profilesCollection = {} /\ prof = [r \in Slots |-> IdleProfile]
    /\ walk = NoWalk

\* a request of any user, known or not, for the first page, and the same
\* request once more
NextFeed ==
    \/ /\ last = IdleReq
       /\ \E userId \in ProfileIds \cup {UnknownProfileId} :
             \E query \in {NoQuery, [NoQuery EXCEPT !.limit = <<1>>]} :
                Discover(userId, query)
    \/ /\ last # IdleReq
       /\ Discover(last.userId, last.query)

SpecFeed == InitFeed /\ [][NextFeed]_vars

\* ------------------------------------------------ legacy GET /match/:id
\* getConnection(userId): the first row of the initiator, or none
getConnection(userId) ==
    IF \E i \in 1..Len(connections) : connections[i].initiator = userId
    THEN connections[CHOOSE i \in 1..Len(connections) :
                        /\ connections[i].initiator = userId
                        /\ \A j \in 1..(i - 1) : connections[j].initiator # userId]
    ELSE NoConnection

\* a mapping that lists the ids from the last user to the first
IdsOf_Reversed(matchedUsers) ==
    [k \in 1..Len(matchedUsers) |-> matchedUsers[Len(matchedUsers) + 1 - k].id]
\* matchedUsers.map((user) => user.id)
IdsOf(matchedUsers) == [k \in 1..Len(matchedUsers) |-> matchedUsers[k].id]

\* getUsersByIds(ids): the rows whose id is among ids, as the store lists them
getUsersByIds(ids) ==
    LET Listed(user) == \E k \in 1..Len(ids) : ids[k] = user.id
    IN SelectSeq(user_for_match, Listed)

\* createConnection(userId, matchedUserIds): the new row; the store gives it
\* the next id
createConnection(userId, matchedUserIds) ==
    [id |-> Len(connections) + 1, initiator |-> userId,
     connections |-> matchedUserIds]

\* an update that adds only the ids the stored list does not hold yet
updateConnection_Deduplicated(connection, newMatchedUserIds) ==
    LET IsNew(id) == \A k \in 1..Len(connection.connections) :
                        connection.connections[k] # id
    IN [connection EXCEPT
           !.connections = connection.connections
                               \o SelectSeq(newMatchedUserIds, IsNew)]
\* updateConnection(connection, newMatchedUserIds): the row as read, with
\* [...connection.connections, ...newMatchedUserIds]
updateConnection(connection, newMatchedUserIds) ==
    [connection EXCEPT
        !.connections = connection.connections \o newMatchedUserIds]

\* what the handler of GET /match/:id answers
MatchResponse(userId, status, error, matchedUsers, message) ==
    [pc |-> "done", route |-> "match", userId |-> userId, status |-> status,
     error |-> error, matches |-> matchedUsers, message |-> message]

\* a legacy computation that leaves out the users the requester has swiped on
legacyMatches_Unswiped(userId) == availableMatches(userId)
\* findMatches(currentUser, potentialMatches) of GET /match/:id
legacyMatches(userId) ==
    findMatches(getUserById(userId), potentialMatches(getUserById(userId)))

\* a test that lets every list of matches go on to saveMatches
NothingFound_Never(matchedUsers) == FALSE
\* matches.length === 0
NothingFound(matchedUsers) == Len(matchedUsers) = 0

\* GET /match/:id up to the getConnection call of saveMatches: the user and
\* the candidates are read and filtered, and a request with candidates
\* looks up the initiator's connection row.  The ids of the model are
\* well-formed: the format check of the id parameter always passes.
GetMatches(r, id) ==
    /\ leg[r].pc = "idle"
    /\ \A r0 \in Slots : r0 < r => leg[r0].pc # "idle"
    /\ nreq' = nreq + 1
    /\ IF ~UserExists(id)
       THEN /\ last' = MatchResponse(id, 404, "User not found", <<>>, "")
            /\ UNCHANGED leg
       ELSE LET found1 == legacyMatches(id)
            IN IF NothingFound(found1)
               THEN /\ last' = MatchResponse(id, 200, "", <<>>,
                                             "Could not find any connections")
                    /\ UNCHANGED leg
               ELSE /\ leg' = [leg EXCEPT ![r] =
                                  [pc |-> "save", userId |-> id,
                                   matchedUserIds |-> IdsOf(found1),
                                   existingConnection |-> getConnection(id)]]
                    /\ UNCHANGED last
    /\ UNCHANGED <<user_swipes, matches, req, user_for_match, connections>>
    /\ UNCHANGED <<clientVars, profVars, cmpVars, likeVars>>

\* the createConnection or updateConnection call of saveMatches, and the
\* response made of getUsersByIds(connection.connections)
SaveMatches(r) ==
    LET h == leg[r]
        row == IF h.existingConnection = NoConnection
               THEN createConnection(h.userId, h.matchedUserIds)
               ELSE updateConnection(h.existingConnection, h.matchedUserIds)
        matchedUsers == getUsersByIds(row.connections)
    IN /\ h.pc = "save"
       /\ connections' =
             IF h.existingConnection = NoConnection
             THEN Append(connections, row)
             ELSE [connections EXCEPT ![row.id] = row]
       /\ leg' = [leg EXCEPT ![r] = IdleLeg]
       /\ last' = MatchResponse(h.userId, 200, "", matchedUsers,
                                IF Len(matchedUsers) = 1 THEN "Found 1 connection"
                                ELSE "Found n connections")
       /\ UNCHANGED <<user_swipes, matches, req, nreq, user_for_match>>
       /\ UNCHANGED <<clientVars, profVars, cmpVars, likeVars>>

InitLegacy ==
    /\ user_swipes = {}
    /\ matches = {}
    /\ req = [r \in Slots |-> IdleReq]
    /\ last = IdleReq
    /\ nreq = 0
    /\ cmpA = 0 /\ cmpB = 0 /\ cmpAB = FALSE /\ cmpBA = FALSE /\ cmpPc = "off"
    /\ pool = <<>> /\ found = <<>>
    /\ user_for_match \in FeedPopulations
    /\ connections = <<>>
    /\ leg = [r \in Slots |-> IdleLeg]
    /\ now = 0 /\ lk = IdleLikes
    /\ profilesCollection = {} /\ prof = [r \in Slots |-> IdleProfile]
    /\ walk = NoWalk

NextLegacy ==
    \/ /\ nreq < MaxLegacyRequests
       /\ \E r \in Slots : \E id \in ProfileIds \cup {UnknownProfileId} : GetMatches(r, id)
    \/ \E r \in Slots : SaveMatches(r)
    \/ \E userId \in ProfileIds \cup {UnknownProfileId} : Discover(userId, NoQuery)

SpecLegacy == InitLegacy /\ [][NextLegacy]_vars

\* ---------------------------------------------------------------------
\* The connections collection over a growing population: legacy requests
\* that overlap, and users that are added between them.

\* seedUser(userData): an account and its profile are created, and the view
\* user_for_match lists the new user after the ones it had
seedUser(userData) ==
    /\ Len(user_for_match) < NumProfiles
    /\ user_for_match' =
          Append(user_for_match, [userData EXCEPT !.id = Len(user_for_match) + 1])
    /\ UNCHANGED <<user_swipes, matches, req, last, nreq, connections, leg>>
    /\ UNCHANGED <<clientVars, profVars, cmpVars, likeVars>>

\* a mentor and a mentee who accept each other
FirstPair ==
    <<UserRow(1, "Mentor", MinAllowedAge, MinAllowedAge, MinAllowedAge, 0, 0),
      UserRow(2, "Mentee", MinAllowedAge, MinAllowedAge, MinAllowedAge, 0, 0)>>

InitConnections ==
    /\ user_swipes = {}
    /\ matches = {}
    /\ req = [r \in Slots |-> IdleReq]
    /\ last = IdleReq
    /\ nreq = 0
    /\ cmpA = 0 /\ cmpB = 0 /\ cmpAB = FALSE /\ cmpBA = FALSE /\ cmpPc = "off"
    /\ pool = <<>> /\ found = <<>>
    /\ user_for_match = FirstPair
    /\ connections = <<>>
    /\ leg = [r \in Slots |-> IdleLeg]
    /\ now = 0 /\ lk = IdleLikes
    /\ profilesCollection = {} /\ prof = [r \in Slots |-> IdleProfile]
    /\ walk = NoWalk

NextConnections ==
    \/ /\ nreq < MaxConnectionRequests
       /\ \E r \in Slots : \E id \in DOMAIN user_for_match : GetMatches(r, id)
    \/ \E r \in Slots : SaveMatches(r)
    \/ \E userData \in FeedProfiles : seedUser(userData)

SpecConnections == InitConnections /\ [][NextConnections]_vars

\* ------------------------------------------- swipes and feed together
\* the swipe handlers of Spec, up to MaxEngineRequests requests, next to
\* discovery requests, on the users of the swipe tests
NextEngine ==
    \/ /\ nreq < MaxEngineRequests
       /\ \E r \in Slots : \E u \in UserIds \cup {GhostId} :
             \E p \in UserIds \cup {GhostId, MissingId} : \E a \in ActionInputs :
                Post(r, u, p, a)
    \/ \E r \in Slots : CheckTheirSwipe(r)
    \/ \E r \in Slots : CreateMatch(r)
    \/ \E userId \in UserIds \cup {GhostId} :
          \E query \in {NoQuery, [NoQuery EXCEPT !.limit = <<0>>]} :
             Discover(userId, query)

SpecEngine == Init /\ [][NextEngine]_vars

\* ------------------------------------------------- pages of the feed
\* one mentor and one mentee more than the largest page holds, all
\* compatible with the mentor
PageRequester == 1
PageCandidates == 2..(MaxPageSize + 2)
PagePopulation ==
    [i \in 1..(MaxPageSize + 2) |->
        UserRow(i, IF i = PageRequester THEN "Mentor" ELSE "Mentee", MinAllowedAge,
                MinAllowedAge, MinAllowedAge, 0, 0)]

InitPage ==
    /\ user_swipes \in SwipeTables(MaxFeedSwipes, {PageRequester}, PageCandidates)
    /\ matches = {}
    /\ req = [r \in Slots |-> IdleReq]
    /\ last = IdleReq
    /\ nreq = 0
    /\ cmpA = 0 /\ cmpB = 0 /\ cmpAB = FALSE /\ cmpBA = FALSE /\ cmpPc = "off"
    /\ pool = <<>> /\ found = <<>>
    /\ user_for_match = PagePopulation
    /\ connections = <<>>
    /\ leg = [r \in Slots |-> IdleLeg]
    /\ now = 0 /\ lk = IdleLikes
    /\ profilesCollection = {} /\ prof = [r \in Slots |-> IdleProfile]
    /\ walk = NoWalk

\* one request of the mentor, with any limit and offset
NextPage ==
    /\ last = IdleReq
    /\ \E query \in Queries : Discover(PageRequester, query)

SpecPage == InitPage /\ [][NextPage]_vars

\* ---------------------------------------------------------------------
\* The read routes of the swipe engine: incoming likes and mutual matches.

\* getFullList({sort: '-created'}): the rows of S, each once, latest first;
\* the store decides the order of rows of one creation time
LatestCreatedFirst(S) ==
    {f \in [1..Cardinality(S) -> S] :
        \A j, k \in 1..Cardinality(S) :
            j < k => (f[j] # f[k] /\ f[j].created >= f[k].created)}

\* a read that lists the earliest match first
LatestMatchedFirst_EarliestFirst(S) ==
    {f \in [1..Cardinality(S) -> S] :
        \A j, k \in 1..Cardinality(S) :
            j < k => (f[j] # f[k] /\ f[j].matchedAt <= f[k].matchedAt)}
\* getFullList({sort: '-matchedAt'}): the rows of S, each once, latest first
LatestMatchedFirst(S) ==
    {f \in [1..Cardinality(S) -> S] :
        \A j, k \in 1..Cardinality(S) :
            j < k => (f[j] # f[k] /\ f[j].matchedAt >= f[k].matchedAt)}

\* what the handler of GET /users/:userId/likes/incoming answers
LikesResponse(userId, status, error, likes) ==
    [pc |-> "done", route |-> "likes", userId |-> userId, status |-> status,
     error |-> error, likes |-> likes, count |-> Len(likes)]

\* a sort that puts the earliest like first
sortByLikedAt_Ascending(likes) ==
    CHOOSE f \in [1..Len(likes) -> {likes[k] : k \in 1..Len(likes)}] :
        \A j, k \in 1..Len(likes) :
            j < k => (f[j] # f[k] /\ f[j].likedAt <= f[k].likedAt)
\* likesWithProfiles.sort((a, b) => new Date(b.likedAt) - new Date(a.likedAt)):
\* Array.prototype.sort is stable, entries of one likedAt keep their order
RECURSIVE sortByLikedAt(_)
sortByLikedAt(likes) ==
    IF Len(likes) = 0 THEN <<>>
    ELSE LET x == likes[Len(likes)]
             sorted == sortByLikedAt(SubSeq(likes, 1, Len(likes) - 1))
             n == Cardinality({k \in 1..Len(sorted) : sorted[k].likedAt >= x.likedAt})
         IN SubSeq(sorted, 1, n) \o <<x>> \o SubSeq(sorted, n + 1, Len(sorted))

\* GET /users/:userId/likes/incoming up to its first read of user_swipes:
\* the user is looked up and the likes that target the user are read,
\* latest first
ReadIncomingLikes(userId) ==
    /\ lk.pc = "idle"
    /\ IF ~UserExists(userId)
       THEN /\ last' = LikesResponse(userId, 404, "User not found", <<>>)
            /\ UNCHANGED lk
       ELSE \E incomingLikes \in
                 LatestCreatedFirst({s \in user_swipes :
                                        s.profile = userId /\ s.action = "like"}) :
               IF Len(incomingLikes) = 0
               THEN /\ last' = LikesResponse(userId, 200, "", <<>>)
                    /\ UNCHANGED lk
               ELSE /\ lk' = [pc |-> "filter", userId |-> userId,
                              incomingLikes |-> incomingLikes]
                    /\ UNCHANGED last
    /\ UNCHANGED <<user_swipes, matches, req, nreq, now>>
    /\ UNCHANGED <<clientVars, profVars, cmpVars, feedVars>>

\* the rest of the handler: the user's own swipes are read, the likers the
\* user has swiped on are dropped, the profiles of the others are read and
\* answered with the time of their like, latest first
FilterLikes ==
    LET userId == lk.userId
        likerIds == [k \in 1..Len(lk.incomingLikes) |-> lk.incomingLikes[k].user]
        NotSwiped(id) == id \notin swipedProfileIds(userId)
        filteredLikerIds == SelectSeq(likerIds, NotSwiped)
        profiles == getUsersByIds(filteredLikerIds)
        SwipeOf(profile) ==
            lk.incomingLikes[CHOOSE k \in 1..Len(lk.incomingLikes) :
                /\ lk.incomingLikes[k].user = profile.id
                /\ \A j \in 1..(k - 1) : lk.incomingLikes[j].user # profile.id]
        likesWithProfiles ==
            [k \in 1..Len(profiles) |->
                [profile |-> profiles[k], likedAt |-> SwipeOf(profiles[k]).created]]
    IN /\ lk.pc = "filter"
       /\ last' = IF Len(filteredLikerIds) = 0
                  THEN LikesResponse(userId, 200, "", <<>>)
                  ELSE LikesResponse(userId, 200, "", sortByLikedAt(likesWithProfiles))
       /\ lk' = IdleLikes
       /\ UNCHANGED <<user_swipes, matches, req, nreq, now>>
       /\ UNCHANGED <<clientVars, profVars, cmpVars, feedVars>>

\* a choice of the matched user that always takes user2
matchedUserIdOf_AlwaysUser2(match, userId) == match.user2
\* match.user1 === userId ? match.user2 : match.user1
matchedUserIdOf(match, userId) ==
    IF match.user1 = userId THEN match.user2 ELSE match.user1

\* what the handler of GET /users/:userId/matches answers
MutualResponse(userId, status, error, mutual) ==
    [pc |-> "done", route |-> "matches", userId |-> userId, status |-> status,
     error |-> error, matches |-> mutual, count |-> Len(mutual)]

\* GET /users/:userId/matches: one read of the matches collection, latest
\* first; a match whose other user has no row in user_for_match is skipped
GetMutualMatches(userId) ==
    /\ \E matchRecords \in
           LatestMatchedFirst({m \in matches :
                                  m.user1 = userId \/ m.user2 = userId}) :
         LET matchData ==
                 [k \in 1..Len(matchRecords) |->
                     [matchId |-> matchRecords[k].id,
                      matchedUserId |-> matchedUserIdOf(matchRecords[k], userId),
                      matchedAt |-> matchRecords[k].matchedAt,
                      conversationStarted |-> matchRecords[k].conversationStarted]]
             HasProfile(m) == UserExists(m.matchedUserId)
             enrichedMatches ==
                 [k \in 1..Len(SelectSeq(matchData, HasProfile)) |->
                     LET m == SelectSeq(matchData, HasProfile)[k]
                     IN [matchId |-> m.matchId,
                         profile |-> getUserById(m.matchedUserId),
                         matchedAt |-> m.matchedAt,
                         conversationStarted |-> m.conversationStarted]]
         IN last' = MutualResponse(userId, 200, "", enrichedMatches)
    /\ UNCHANGED <<user_swipes, matches, req, nreq>>
    /\ UNCHANGED <<clientVars, profVars, cmpVars, feedVars, likeVars>>

\* the users of the likes tests: a requester and the users who may like them
LikeUsers == 1..(NumProfiles + 1)
LikesRequester == 1
LikesPopulation ==
    [i \in LikeUsers |->
        UserRow(i, IF i = LikesRequester THEN "Mentor" ELSE "Mentee", MinAllowedAge,
                MinAllowedAge, MinAllowedAge, 0, 0)]
\* the ordered pairs of users that have the requester on one side
LikePairs ==
    {<<u, p>> \in LikeUsers \X LikeUsers :
        u # p /\ (u = LikesRequester \/ p = LikesRequester)}

\* the contents user_swipes can have with up to n rows over the given
\* ordered pairs, one row at most for a pair, created at times 1..MaxTime
RECURSIVE TimedSwipeTables(_, _)
TimedSwipeTables(n, pairs) ==
    IF n = 0 THEN {{}}
    ELSE LET smaller == TimedSwipeTables(n - 1, pairs)
         IN smaller \cup
            {x[1] \cup {[user |-> x[2][1], profile |-> x[2][2], action |-> x[3],
                         created |-> x[4]]} :
                x \in {y \in smaller \X pairs \X swipeActionSchema \X (1..MaxTime) :
                        \A s \in y[1] : ~(s.user = y[2][1] /\ s.profile = y[2][2])}}

InitLikes ==
    /\ user_swipes \in TimedSwipeTables(MaxLikeRows, LikePairs)
    /\ matches = {}
    /\ req = [r \in Slots |-> IdleReq]
    /\ last = IdleReq
    /\ nreq = 0
    /\ cmpA = 0 /\ cmpB = 0 /\ cmpAB = FALSE /\ cmpBA = FALSE /\ cmpPc = "off"
    /\ pool = <<>> /\ found = <<>>
    /\ user_for_match = LikesPopulation
    /\ connections = <<>>
    /\ leg = [r \in Slots |-> IdleLeg]
    /\ now = MaxTime /\ lk = IdleLikes
    /\ profilesCollection = {} /\ prof = [r \in Slots |-> IdleProfile]
    /\ walk = NoWalk

\* one request for the incoming likes of the requester or of an unknown user
NextLikes ==
    \/ /\ last = IdleReq
       /\ \E userId \in {LikesRequester, NumProfiles + 2} : ReadIncomingLikes(userId)
    \/ FilterLikes

SpecLikes == InitLikes /\ [][NextLikes]_vars

\* ---------------------------------------------------------------------
\* The mutual matches route over drawn contents of the matches collection.

\* the users that matches rows refer to: the last one has lost its profile
MatchUsers == 1..(NumProfiles + 1)
DeletedUserId == NumProfiles + 1
MatchPopulation ==
    [i \in ProfileIds |->
        UserRow(i, IF i % 2 = 1 THEN "Mentor" ELSE "Mentee", MinAllowedAge,
                MinAllowedAge, MinAllowedAge, 0, 0)]

\* the user whose matches the collection holds: a user with users before
\* and after them in the order of the ids
MatchRequester == 2

\* the contents matches can have with up to n rows of MatchRequester: one
\* row at most for a pair of users, user1 before user2, matched at times
\* 1..MaxTime, with the ids the store gave the rows one after the other
RECURSIVE MatchTables(_)
MatchTables(n) ==
    IF n = 0 THEN {{}}
    ELSE LET smaller == MatchTables(n - 1)
         IN smaller \cup
            {x[1] \cup {[id |-> Cardinality(x[1]) + 1, user1 |-> x[2], user2 |-> x[3],
                         matchedAt |-> x[4], conversationStarted |-> FALSE]} :
                x \in {y \in smaller \X MatchUsers \X MatchUsers \X (1..MaxTime) :
                        /\ y[2] < y[3]
                        /\ (y[2] = MatchRequester \/ y[3] = MatchRequester)
                        /\ \A m \in y[1] : ~(m.user1 = y[2] /\ m.user2 = y[3])}}

InitMatches ==
    /\ user_swipes = {}
    /\ matches \in MatchTables(MaxMatchRows)
    /\ req = [r \in Slots |-> IdleReq]
    /\ last = IdleReq
    /\ nreq = 0
    /\ cmpA = 0 /\ cmpB = 0 /\ cmpAB = FALSE /\ cmpBA = FALSE /\ cmpPc = "off"
    /\ pool = <<>> /\ found = <<>>
    /\ user_for_match = MatchPopulation
    /\ connections = <<>>
    /\ leg = [r \in Slots |-> IdleLeg]
    /\ now = MaxTime /\ lk = IdleLikes
    /\ profilesCollection = {} /\ prof = [r \in Slots |-> IdleProfile]
    /\ walk = NoWalk

\* requests for the mutual matches of any user, one after the other
NextMatches == \E userId \in MatchUsers : GetMutualMatches(userId)

SpecMatches == InitMatches /\ [][NextMatches]_vars

\* ---------------------------------------------------------------------
\* Profile creation (POST /profiles).  The handler reads the profiles
\* collection and then writes to it: it is split between the two calls.

\* age, minAge, maxAge: z.number().int().min(18).max(120)
MaxAllowedAge == 120
AgeInRange(x) == x >= MinAllowedAge /\ x <= MaxAllowedAge

\* createProfileRequestSchema.safeParse(body).success, for the fields of
\* the model
RequestBodyValid(body) ==
    AgeInRange(body.age) /\ AgeInRange(body.minAge) /\ AgeInRange(body.maxAge)

\* a refinement that accepts every pair of ages
AgeOrderValid_Unchecked(data) == TRUE
\* .refine((data) => data.maxAge >= data.minAge)
AgeOrderValid(data) == data.maxAge >= data.minAge

\* role: val.toLowerCase() mapped to 'Mentor' or 'Mentee'
normalizeRole(val) ==
    IF val \in {"mentor", "Mentor", "MENTOR"} THEN "Mentor" ELSE "Mentee"

\* the request bodies: roles in several spellings, ages around the lowest
\* allowed one
ProfileBodies ==
    [userId : UserIds, role : {"mentor", "MENTEE"}, age : {MinAllowedAge},
     minAge : (MinAllowedAge - 1)..(MinAllowedAge + 1),
     maxAge : (MinAllowedAge - 1)..(MinAllowedAge + 1)]

\* what the handler of POST /profiles answers
ProfileResponse(body, status, error, profile) ==
    [pc |-> "done", route |-> "profiles", userId |-> body.userId, body |-> body,
     status |-> status, error |-> error, profile |-> profile]
NoProfile == [id |-> 0, user |-> 0, role |-> "", age |-> 0, minAge |-> 0, maxAge |-> 0]

\* POST /profiles up to the look-up of the user's profiles: the body is
\* validated by the route and by createProfile, and a user who has a profile
\* is answered with a conflict
PostProfile(r, body) ==
    /\ prof[r].pc = "idle"
    /\ \A r0 \in Slots : r0 < r => prof[r0].pc # "idle"
    /\ nreq' = nreq + 1
    /\ IF ~RequestBodyValid(body)
       THEN /\ last' = ProfileResponse(body, 400, "Validation failed", NoProfile)
            /\ UNCHANGED prof
       ELSE IF ~AgeOrderValid(body)
       THEN /\ last' = ProfileResponse(body, 400,
                          "maxAge must be greater than or equal to minAge", NoProfile)
            /\ UNCHANGED prof
       ELSE IF \E p \in profilesCollection : p.user = body.userId
       THEN /\ last' = ProfileResponse(body, 409,
                          "Profile already exists for this user", NoProfile)
            /\ UNCHANGED prof
       ELSE /\ prof' = [prof EXCEPT ![r] =
                           [pc |-> "create", userId |-> body.userId,
                            profileData |-> <<body>>]]
            /\ UNCHANGED last
    /\ UNCHANGED <<user_swipes, matches, req, profilesCollection>>
    /\ UNCHANGED <<cmpVars, feedVars, likeVars, clientVars>>

\* pb.collection('profiles').create(profileData) and the 201 response.  The
\* schema of the profiles collection is not part of the repository: when
\* the user has got a profile in the meantime, a store with a unique index
\* on user rejects the row, which createProfile turns into a conflict, and
\* a store without one keeps both rows.
InsertProfile(r) ==
    LET body == prof[r].profileData[1]
        profile == [id |-> Cardinality(profilesCollection) + 1, user |-> body.userId,
                    role |-> normalizeRole(body.role), age |-> body.age,
                    minAge |-> body.minAge, maxAge |-> body.maxAge]
    IN /\ prof[r].pc = "create"
       /\ \/ /\ profilesCollection' = create(profilesCollection, profile)
             /\ last' = ProfileResponse(body, 201, "", profile)
          \/ /\ \E p \in profilesCollection : p.user = body.userId
             /\ last' = ProfileResponse(body, 409,
                           "Profile already exists for this user", NoProfile)
             /\ UNCHANGED profilesCollection
       /\ prof' = [prof EXCEPT ![r] = IdleProfile]
       /\ UNCHANGED <<user_swipes, matches, req, nreq>>
       /\ UNCHANGED <<cmpVars, feedVars, likeVars, clientVars>>

NextProfiles ==
    \/ /\ nreq < MaxProfileRequests
       /\ \E r \in Slots : \E body \in ProfileBodies : PostProfile(r, body)
    \/ \E r \in Slots : InsertProfile(r)

SpecProfiles == Init /\ [][NextProfiles]_vars

\* ---------------------------------------------------------------------
\* A client that pages through the discovery feed: it starts at offset 0
\* with a fixed limit and asks for nextOffset as long as hasMore is true.

\* the limits of the walks: small pages, and a limit above the largest page
WalkLimits == (1..MaxLimitInput) \cup {MaxPageSize + 1}

\* the client sends its next request
AskPage ==
    /\ walk.pc = "walking"
    /\ ~IsDiscovery(last)
    /\ \A r \in Slots : req[r].pc = "idle"
    /\ walk.swipes =>
          \A k \in 1..Len(walk.page) : SwipeUniqueViolated(PageRequester, walk.page[k])
    /\ Discover(PageRequester,
                [limit |-> <<walk.limit>>, offset |-> <<walk.offset>>])

\* the client takes the response: it notes the profiles of the page and
\* goes on from nextOffset when hasMore is true
TakePage ==
    /\ walk.pc = "walking"
    /\ IsDiscovery(last)
    /\ walk' = [walk EXCEPT
                   !.pc = IF last.hasMore THEN "walking" ELSE "ended",
                   !.offset = last.nextOffset,
                   !.page = IdsOf(last.profiles),
                   !.shown = walk.shown \o IdsOf(last.profiles)]
    /\ last' = IdleReq
    /\ UNCHANGED <<user_swipes, matches, req, nreq>>
    /\ UNCHANGED <<cmpVars, feedVars, likeVars, profVars>>

\* a walk while nothing is written: the client does not swipe
InitWalk ==
    /\ user_swipes \in SwipeTables(MaxFeedSwipes, {PageRequester}, 2..3)
    /\ matches = {}
    /\ req = [r \in Slots |-> IdleReq]
    /\ last = IdleReq
    /\ nreq = 0
    /\ cmpA = 0 /\ cmpB = 0 /\ cmpAB = FALSE /\ cmpBA = FALSE /\ cmpPc = "off"
    /\ pool = <<>> /\ found = <<>>
    /\ user_for_match = PagePopulation
    /\ connections = <<>>
    /\ leg = [r \in Slots |-> IdleLeg]
    /\ now = 0 /\ lk = IdleLikes
    /\ profilesCollection = {} /\ prof = [r \in Slots |-> IdleProfile]
    /\ walk \in {[NoWalk EXCEPT !.pc = "walking", !.limit = l] : l \in WalkLimits}

NextWalk ==
    \/ AskPage
    \/ TakePage

\* the client and the server go on as long as they can
SpecWalk == InitWalk /\ [][NextWalk]_vars /\ WF_vars(NextWalk)

\* ---------------------------------------------------------------------
\* A client that pages through the feed and swipes on every profile of a
\* page before it asks for the next page.

\* a mentor and the mentees of their feed
SwipeWalkPopulation ==
    [i \in 1..(NumProfiles + 1) |->
        UserRow(i, IF i = PageRequester THEN "Mentor" ELSE "Mentee", MinAllowedAge,
                MinAllowedAge, MinAllowedAge, 0, 0)]

\* the client records a swipe on a profile of the page it has taken
SwipeProfile ==
    /\ walk.pc = "walking" /\ walk.swipes
    /\ ~IsDiscovery(last)
    /\ \E k \in 1..Len(walk.page) : \E a \in swipeActionSchema : \E r \in Slots :
          /\ ~SwipeUniqueViolated(PageRequester, walk.page[k])
          /\ \A r0 \in Slots : req[r0].pc = "idle"
          /\ Post(r, PageRequester, walk.page[k], a)

InitSwipeWalk ==
    /\ user_swipes \in SwipeTables(MaxFeedSwipes, 2..(NumProfiles + 1), {PageRequester})
    /\ matches = {}
    /\ req = [r \in Slots |-> IdleReq]
    /\ last = IdleReq
    /\ nreq = 0
    /\ cmpA = 0 /\ cmpB = 0 /\ cmpAB = FALSE /\ cmpBA = FALSE /\ cmpPc = "off"
    /\ pool = <<>> /\ found = <<>>
    /\ user_for_match = SwipeWalkPopulation
    /\ connections = <<>>
    /\ leg = [r \in Slots |-> IdleLeg]
    /\ now = 0 /\ lk = IdleLikes
    /\ profilesCollection = {} /\ prof = [r \in Slots |-> IdleProfile]
    /\ walk \in {[NoWalk EXCEPT !.pc = "walking", !.swipes = TRUE, !.limit = l] :
                    l \in 1..MaxLimitInput}

NextSwipeWalk ==
    \/ AskPage
    \/ TakePage
    \/ SwipeProfile
    \/ \E r \in Slots : CheckTheirSwipe(r)
    \/ \E r \in Slots : CreateMatch(r)

SpecSwipeWalk == InitSwipeWalk /\ [][NextSwipeWalk]_vars /\ WF_vars(NextSwipeWalk)

\* ---------------------------------------------------------------------
\* A client who reads their incoming likes and likes back a user of the
\* list, while the other users swipe.

\* the ids of the users an answer of GET /users/:userId/likes/incoming lists
ListedLikers(q) ==
    IF "route" \in DOMAIN q /\ q.route = "likes" /\ q.pc = "done"
    THEN {q.likes[k].profile.id : k \in 1..Len(q.likes)}
    ELSE {}

\* a swipe request of any other user
OthersSwipe ==
    \E r \in Slots : \E u \in UserIds \ {LikesRequester} : \E p \in UserIds :
        \E a \in swipeActionSchema : Post(r, u, p, a)

\* the client asks for their incoming likes
AskLikes == ReadIncomingLikes(LikesRequester)

\* the client likes a user of the list they were answered last; they have
\* no other request of their own under way
LikeBack ==
    /\ last.userId = LikesRequester
    /\ \A r0 \in Slots : req[r0].userId # LikesRequester
    /\ \E r \in Slots : \E L \in ListedLikers(last) : Post(r, LikesRequester, L, "like")

NextLikeBack ==
    \/ OthersSwipe
    \/ AskLikes
    \/ FilterLikes
    \/ LikeBack
    \/ \E r \in Slots : CheckTheirSwipe(r)
    \/ \E r \in Slots : CreateMatch(r)

SpecLikeBack == Init /\ [][NextLikeBack]_vars

\* ---------------------------------------------------------------------
\* Swipe requests between users of any role and age: user 1 is a mentor who
\* accepts the lowest age only, every other user is a mentor or a mentee of
\* that age or of the next.
AnyPairPopulations ==
    {[i \in UserIds |-> IF i = 1
                         THEN UserRow(1, "Mentor", MinAllowedAge, MinAllowedAge,
                                      MinAllowedAge, 0, 0)
                         ELSE [f[i] EXCEPT !.id = i]] :
        f \in [UserIds -> FeedProfiles]}

InitAnyPair ==
    /\ user_swipes = {}
    /\ matches = {}
    /\ req = [r \in Slots |-> IdleReq]
    /\ last = IdleReq
    /\ nreq = 0
    /\ cmpA = 0 /\ cmpB = 0 /\ cmpAB = FALSE /\ cmpBA = FALSE /\ cmpPc = "off"
    /\ pool = <<>> /\ found = <<>>
    /\ user_for_match \in AnyPairPopulations
    /\ connections = <<>>
    /\ leg = [r \in Slots |-> IdleLeg]
    /\ now = 0 /\ lk = IdleLikes
    /\ profilesCollection = {} /\ prof = [r \in Slots |-> IdleProfile]
    /\ walk = NoWalk

NextAnyPair ==
    \/ /\ nreq < MaxEngineRequests
       /\ \E r \in Slots : \E u, p \in UserIds : \E a \in swipeActionSchema :
             Post(r, u, p, a)
    \/ \E r \in Slots : CheckTheirSwipe(r)
    \/ \E r \in Slots : CreateMatch(r)

SpecAnyPair == InitAnyPair /\ [][NextAnyPair]_vars

\* ---------------------------------------------------------------------
\* The two matching routes side by side: one user who has swiped asks the
\* legacy route and the discovery route.
CompareRequester == 1

InitCompare ==
    /\ user_swipes \in SwipeTables(MaxFeedSwipes, {CompareRequester},
                                   ProfileIds \ {CompareRequester})
    /\ matches = {}
    /\ req = [r \in Slots |-> IdleReq]
    /\ last = IdleReq
    /\ nreq = 0
    /\ cmpA = 0 /\ cmpB = 0 /\ cmpAB = FALSE /\ cmpBA = FALSE /\ cmpPc = "off"
    /\ pool = <<>> /\ found = <<>>
    /\ user_for_match \in FeedPopulations
    /\ connections = <<>>
    /\ leg = [r \in Slots |-> IdleLeg]
    /\ now = 0 /\ lk = IdleLikes
    /\ profilesCollection = {} /\ prof = [r \in Slots |-> IdleProfile]
    /\ walk = NoWalk

NextCompare ==
    \/ /\ nreq < MaxCompareRequests
       /\ \E r \in Slots : GetMatches(r, CompareRequester)
    \/ \E r \in Slots : SaveMatches(r)
    \/ Discover(CompareRequester, NoQuery)

SpecCompare == InitCompare /\ [][NextCompare]_vars

\* ---------------------------------------------------------------------
\* All the operations over one store: swipe requests, discovery, the
\* legacy route, incoming likes and mutual matches, in any interleaving.
NextStore ==
    \/ /\ nreq < MaxEngineRequests
       /\ \E r \in Slots : \E u, p \in UserIds : \E a \in swipeActionSchema :
             Post(r, u, p, a)
    \/ \E r \in Slots : CheckTheirSwipe(r)
    \/ \E r \in Slots : CreateMatch(r)
    \/ \E userId \in UserIds : Discover(userId, NoQuery)
    \/ /\ nreq < MaxEngineRequests
       /\ \E r \in Slots : \E id \in UserIds : GetMatches(r, id)
    \/ \E r \in Slots : SaveMatches(r)
    \/ \E userId \in UserIds : ReadIncomingLikes(userId)
    \/ FilterLikes
    \/ \E userId \in UserIds : GetMutualMatches(userId)

SpecStore == Init /\ [][NextStore]_vars

\* ================================================================ claims
\* a Swipe row exists for the ordered pair (a, t)
SwipeExists(a, t) == \E s \in user_swipes : s.user = a /\ s.profile = t
\* a like Swipe row exists from a to t
hasLiked(a, t) ==
    \E s \in user_swipes : s.user = a /\ s.profile = t /\ s.action = "like"
\* a pass Swipe row exists from a to t
hasPassed(a, t) ==
    \E s \in user_swipes : s.user = a /\ s.profile = t /\ s.action = "pass"
\* the Match rows of the unordered pair {u, v}
MatchesOfPair(u, v) == {m \in matches : {m.user1, m.user2} = {u, v}}
\* the handler q has made its user_swipes create call
PastSwipeCreate(q) ==
    \/ q.pc \in {"checkMutual", "createMatch"}
    \/ (q.pc = "done" /\ q.status \in {200, 409, 500})
\* the handlers that are running or finished last
Handlers == {req[r] : r \in Slots} \cup {last}
\* a request arrives in this step
Arrived == nreq' = nreq + 1
\* the handler of the request that arrives in this step, after the step
NewReq ==
    LET r == CHOOSE r1 \in Slots :
                 req[r1].pc = "idle" /\ \A r0 \in Slots : r0 < r1 => req[r0].pc # "idle"
    IN IF req'[r].pc # "idle" THEN req'[r] ELSE last'
\* the arriving request passed validation and both user look-ups
ArrivedValid ==
    /\ Arrived
    /\ NewReq.userId \in UserIds /\ NewReq.profileId \in UserIds
    /\ NewReq.action \in {"like", "pass"}
\* q1 is the handler q at a later point of the same request
SameRequest(q, q1) ==
    q1.userId = q.userId /\ q1.profileId = q.profileId /\ q1.action = q.action

\* C1: in every reachable state at most one Match row exists for each
\* unordered pair of users, whatever the interleaving of swipe requests.
C1_AtMostOneMatchPerPair ==
    \A u \in UserIds : \A v \in UserIds : Cardinality(MatchesOfPair(u, v)) <= 1

\* mutuality was detected a second time: a request between two different
\* users found the reverse like when the pair's Match was already there,
\* and the pair still has its one Match row
C1_Witness ==
    /\ last.pc = "done" /\ last.theirSwipe /\ last.match = NoMatch
    /\ last.userId # last.profileId
    /\ Cardinality(MatchesOfPair(last.userId, last.profileId)) = 1

\* C2: a request that observed mutuality and finds the pair's Match already
\* present completes successfully with the existing Match, so every request
\* that observed mutuality ends without error.
C2_LosingWriterSucceeds ==
    (last.pc = "done" /\ last.theirSwipe) =>
        (last.status = 200 /\ last.match # NoMatch)

\* C3: at most one Swipe row per ordered pair; of the requests for one
\* ordered pair that have made their create call, at most one persisted a
\* row, every other one was answered 409, and the pair has its row.
C3_OneSwipePerOrderedPair ==
    /\ \A u \in UserIds : \A p \in UserIds :
         Cardinality({s \in user_swipes : s.user = u /\ s.profile = p}) <= 1
    /\ \A q \in Handlers : PastSwipeCreate(q) =>
         /\ SwipeExists(q.userId, q.profileId)
         /\ (q.swipe = NoSwipe) <=> (q.status = 409)
         /\ q.swipe # NoSwipe => q.swipe \in user_swipes
    /\ \A r1 \in Slots : PastSwipeCreate(req[r1]) =>
         /\ \A r2 \in Slots \ {r1} :
              (/\ PastSwipeCreate(req[r2])
               /\ req[r1].userId = req[r2].userId
               /\ req[r1].profileId = req[r2].profileId)
              => (req[r1].swipe = NoSwipe \/ req[r2].swipe = NoSwipe)
         /\ (/\ PastSwipeCreate(last)
             /\ req[r1].userId = last.userId
             /\ req[r1].profileId = last.profileId)
            => (req[r1].swipe = NoSwipe \/ last.swipe = NoSwipe)

\* two requests for the same ordered pair overlap: one persisted the row
\* and is still running, the other one was answered 409
C3_Witness ==
    \E r1 \in Slots :
        /\ req[r1].pc = "checkMutual" /\ req[r1].swipe \in user_swipes
        /\ last.pc = "done" /\ last.status = 409 /\ last.swipe = NoSwipe
        /\ req[r1].userId = last.userId
        /\ req[r1].profileId = last.profileId
        /\ Cardinality({s \in user_swipes : s.user = last.userId
                           /\ s.profile = last.profileId}) = 1

\* C4: a swipe request on an ordered pair that already has a Swipe is
\* answered 409 and changes nothing: no Swipe row is added or altered, match
\* detection is not run and no Match row is created.
C4_ConflictChangesNothing ==
    [][(ArrivedValid /\ SwipeExists(NewReq.userId, NewReq.profileId))
         => (/\ NewReq.pc = "done"
             /\ NewReq.status = 409
             /\ NewReq.match = NoMatch
             /\ NewReq.theirSwipe = FALSE
             /\ NewReq.swipe = NoSwipe
             /\ user_swipes' = user_swipes
             /\ matches' = matches)]_vars

\* a like on a pair already passed on was answered 409 although the
\* reverse like exists and the pair has no Match: the first row keeps its
\* action and no Match was created
C4_Witness ==
    /\ last.pc = "done" /\ last.status = 409
    /\ last.action = "like"
    /\ last.userId # last.profileId
    /\ hasPassed(last.userId, last.profileId)
    /\ ~hasLiked(last.userId, last.profileId)
    /\ hasLiked(last.profileId, last.userId)
    /\ MatchesOfPair(last.userId, last.profileId) = {}

\* C5: every Match row is backed by a like Swipe in each direction, and a
\* Match row is only ever added by a like request whose reverse like exists.
C5_MatchBackedByMutualLikes ==
    /\ [](\A m \in matches :
            hasLiked(m.user1, m.user2) /\ hasLiked(m.user2, m.user1))
    /\ [][matches' # matches =>
            \E r \in Slots :
                /\ req[r].pc = "createMatch" /\ req'[r] = IdleReq
                /\ req[r].action = "like"
                /\ hasLiked(req[r].userId, req[r].profileId)
                /\ hasLiked(req[r].profileId, req[r].userId)
                /\ \E m \in matches' :
                     /\ matches' = matches \cup {m}
                     /\ {m.user1, m.user2} = {req[r].userId, req[r].profileId}]_vars

\* a Match row between two different users exists
C5_Witness ==
    \E m \in matches : m.user1 # m.user2

\* C6: a like request that finds the reverse like returns a non-null match
\* with the sorted pair, conversationStarted = false, the target's profile
\* and the message "It's a match!", and the pair has one Match row.
C6_MutualLikeReturnsMatch ==
    (last.pc = "done" /\ last.theirSwipe) =>
        /\ last.status = 200
        /\ last.message = "It's a match!"
        /\ last.match # NoMatch
        /\ last.match.user1 <= last.match.user2
        /\ {last.match.user1, last.match.user2} = {last.userId, last.profileId}
        /\ last.match.conversationStarted = FALSE
        /\ last.match.profile = last.profileId
        /\ Cardinality(MatchesOfPair(last.userId, last.profileId)) = 1

\* C7: every Match row has user1 strictly below user2.
C7_LowStrictlyBelowHigh ==
    \A m \in matches : m.user1 < m.user2

\* C8: a pass request returns match = null and leaves the Match rows as
\* they are, also when the target has already liked the actor; it never
\* reaches match detection.
C8_PassNeverMatches ==
    [][/\ (ArrivedValid /\ NewReq.action = "pass")
            => (/\ matches' = matches
                /\ NewReq.pc = "done"
                /\ NewReq.match = NoMatch
                /\ NewReq.theirSwipe = FALSE)
       /\ \A r \in Slots : req'[r].pc # "idle" => req'[r].action = "like"]_vars

\* a pass was recorded and answered with match = null while the target's
\* like on the actor exists, and the pair has no Match
C8_Witness ==
    /\ last.pc = "done" /\ last.status = 200
    /\ last.action = "pass"
    /\ last.swipe \in user_swipes
    /\ last.match = NoMatch
    /\ last.userId # last.profileId
    /\ hasLiked(last.profileId, last.userId)
    /\ MatchesOfPair(last.userId, last.profileId) = {}

\* C9: a like request persists its Swipe, and when its match check finds no
\* like Swipe from the target to the actor (none at all, or a pass) it
\* returns match = null with "Swipe recorded" and creates no Match row.
C9_OneSidedLikeNoMatch ==
    [][/\ (/\ ArrivedValid
           /\ NewReq.action = "like"
           /\ ~SwipeExists(NewReq.userId, NewReq.profileId))
          => (/\ NewReq.swipe = [user |-> NewReq.userId, profile |-> NewReq.profileId,
                                 action |-> "like", created |-> now]
              /\ user_swipes' = user_swipes \cup {NewReq.swipe}
              /\ matches' = matches)
       /\ \A r \in Slots :
            (/\ req[r].pc = "checkMutual"
             /\ req'[r] # req[r]
             /\ ~hasLiked(req[r].profileId, req[r].userId))
            => (/\ req'[r] = IdleReq
                /\ SameRequest(req[r], last')
                /\ last'.pc = "done"
                /\ last'.status = 200
                /\ last'.match = NoMatch
                /\ last'.message = "Swipe recorded"
                /\ last'.swipe \in user_swipes'
                /\ matches' = matches)]_vars

\* a like was answered "Swipe recorded" with match = null where the target
\* had passed on the actor; the like is stored and the pair has no Match
C9_Witness ==
    /\ last.pc = "done" /\ last.status = 200
    /\ last.action = "like"
    /\ last.match = NoMatch
    /\ last.message = "Swipe recorded"
    /\ last.swipe \in user_swipes
    /\ hasPassed(last.profileId, last.userId)
    /\ MatchesOfPair(last.userId, last.profileId) = {}

\* C10: the compatibility filter is symmetric: cmpA finds cmpB compatible
\* exactly when cmpB finds cmpA compatible.
C10_CompatibilitySymmetric ==
    cmpPc = "done" => (cmpAB <=> cmpBA)

\* the age of x lies in the closed range [minAge, maxAge] of y
AgeAccepted(y, x) == y.minAge <= x.age /\ x.age <= y.maxAge
\* both users accept each other's age
AgeMutual(a, b) == AgeAccepted(a, b) /\ AgeAccepted(b, a)
\* the distance exceeds the non-zero maxDistance of x
ThresholdExceeded(x, a, b) ==
    x.maxDistance # 0 /\ DistanceInKm(a, b) > x.maxDistance

\* C11: the distance check needs both sides: whenever the distance between
\* cmpA and cmpB exceeds the non-zero maxDistance of either of them, cmpB is
\* not a candidate of cmpA, also when cmpA's own maxDistance is 0.
C11_BothDistanceLimitsHold ==
    (cmpPc = "done" /\ (ThresholdExceeded(cmpA, cmpA, cmpB)
                         \/ ThresholdExceeded(cmpB, cmpA, cmpB)))
        => ~cmpAB

\* C12: when cmpA and cmpB both have maxDistance 0 the pair is never
\* rejected on distance: at any coordinates cmpB is a candidate of cmpA
\* exactly when the two age checks pass.
C12_ZeroDistanceMeansAgeOnly ==
    (cmpPc = "done" /\ cmpA.maxDistance = 0 /\ cmpB.maxDistance = 0)
        => (cmpAB <=> AgeMutual(cmpA, cmpB))

\* two users without a distance limit, as far apart as the line allows, who
\* accept each other's age, are compatible
C12_Witness ==
    /\ cmpPc = "done"
    /\ cmpA.maxDistance = 0 /\ cmpB.maxDistance = 0
    /\ DistanceInKm(cmpA, cmpB) = MaxPos
    /\ AgeMutual(cmpA, cmpB)
    /\ cmpAB

\* C13: the age check is mutual and inclusive: a candidate is never kept
\* unless each age lies in the other's closed range [minAge, maxAge], and
\* where the distance check cannot reject (both users at the same place)
\* the candidate is kept exactly when the ages lie in those closed ranges,
\* so that minAge and maxAge are in and minAge - 1 and maxAge + 1 are out.
C13_AgeCheckMutualInclusive ==
    cmpPc = "done" =>
        /\ cmpAB => AgeMutual(cmpA, cmpB)
        /\ DistanceInKm(cmpA, cmpB) = 0 => (cmpAB <=> AgeMutual(cmpA, cmpB))

\* a candidate whose age equals the current user's maxAge, and whose own
\* minAge equals the current user's age, is kept
C13_Witness ==
    /\ cmpPc = "done"
    /\ cmpA.minAge < cmpA.maxAge
    /\ cmpB.age = cmpA.maxAge
    /\ cmpA.age = cmpB.minAge
    /\ cmpAB

\* the positions of the pool whose entry is compatible with cmpA
KeptPositions == {i \in 1..Len(pool) : MatchesUser(cmpA, pool[i])}
\* the k-th smallest of the kept positions
KthKept(k) ==
    CHOOSE i \in KeptPositions : Cardinality({j \in KeptPositions : j <= i}) = k

\* C14: findMatches returns the order-preserving sub-sequence of the pool
\* selected by the predicate: one entry for every compatible position of the
\* pool, repeated entries kept, in the order of the positions.
C14_OrderPreservingSubsequence ==
    cmpPc = "filtered" =>
        /\ Len(found) = Cardinality(KeptPositions)
        /\ \A k \in 1..Len(found) : found[k] = pool[KthKept(k)]

\* a pool that holds a compatible user twice, with an incompatible user
\* between the two, comes back as the compatible user twice
C14_Witness ==
    /\ cmpPc = "filtered"
    /\ Len(pool) = 3
    /\ pool[1] = pool[3]
    /\ KeptPositions = {1, 3}
    /\ found = <<pool[1], pool[3]>>

\* this step is a request to the discovery handler: no other step leaves a
\* discovery response in `last` without moving a swipe handler
DiscoverStep == IsDiscovery(last') /\ req' = req /\ nreq' = nreq
\* the users of the opposite role that are compatible with userId and that
\* userId has no Swipe on
AvailableIds(userId) ==
    {i \in DOMAIN user_for_match :
        /\ user_for_match[i].role # user_for_match[userId].role
        /\ MatchesUser(user_for_match[userId], user_for_match[i])
        /\ ~SwipeExists(userId, i)}

\* C15: a successful Discover(userId) returns only users that are compatible
\* with userId, of the opposite role, and not the target of a Swipe of
\* userId, like or pass; total counts exactly those users; the profiles come
\* in the order of the store, and a first page that is large enough holds
\* all of them.
C15_SwipedProfilesExcluded ==
    (IsDiscovery(last) /\ last.status = 200) =>
        LET ids == {last.profiles[k].id : k \in 1..Len(last.profiles)}
        IN /\ ids \subseteq AvailableIds(last.userId)
           /\ last.total = Cardinality(AvailableIds(last.userId))
           /\ \A j, k \in 1..Len(last.profiles) :
                 j < k => last.profiles[j].id < last.profiles[k].id
           /\ last.query = NoQuery => ids = AvailableIds(last.userId)

\* the requester has passed on one compatible user of the opposite role and
\* is shown another one
C15_Witness ==
    /\ IsDiscovery(last) /\ last.status = 200
    /\ Len(last.profiles) >= 1
    /\ \E i \in DOMAIN user_for_match :
          /\ user_for_match[i].role # user_for_match[last.userId].role
          /\ MatchesUser(user_for_match[last.userId], user_for_match[i])
          /\ hasPassed(last.userId, i)

\* the limit and the offset a valid request stands for
EffectiveLimit(query) ==
    IF query.limit = <<>> THEN DefaultLimit
    ELSE IF query.limit[1] > MaxPageSize THEN MaxPageSize ELSE query.limit[1]
EffectiveOffset(query) == IF query.offset = <<>> THEN 0 ELSE query.offset[1]

\* C16: for a valid limit and offset, total is the length of the available
\* list, profiles is its part from position offset up to offset + limit (at
\* most limit entries, none when offset >= total), hasMore tells whether
\* offset + limit < total, and nextOffset is offset + limit when hasMore is
\* true and the caller's offset otherwise.
C16_PageOfAvailable ==
    (IsDiscovery(last) /\ last.status = 200) =>
        LET limit == EffectiveLimit(last.query)
            offset == EffectiveOffset(last.query)
            available == availableMatches(last.userId)
            n == Len(last.profiles)
        IN /\ last.total = Len(available)
           /\ n <= limit
           /\ n = IF offset >= last.total THEN 0
                  ELSE IF last.total - offset < limit THEN last.total - offset
                  ELSE limit
           /\ \A k \in 1..n : last.profiles[k] = available[offset + k]
           /\ last.hasMore <=> (offset + limit < last.total)
           /\ offset >= last.total => ~last.hasMore
           /\ last.hasMore => last.nextOffset = offset + limit
           /\ ~last.hasMore => last.nextOffset = offset

\* a page in the middle of the list: it starts after the first entry, is
\* full, and more entries follow
C16_Witness ==
    /\ IsDiscovery(last) /\ last.status = 200
    /\ last.query.offset = <<1>> /\ last.query.limit = <<2>>
    /\ Len(last.profiles) = 2
    /\ last.hasMore /\ last.nextOffset = 3

\* C17: a limit below 1 and a negative offset are rejected as invalid input
\* and never clamped; a limit above 50 is served as a limit of 50 and no page
\* holds more than 50 profiles; without a limit the page holds up to 20
\* profiles, and without an offset it starts at the first available profile.
C17_LimitAndOffsetValidation ==
    IsDiscovery(last) =>
        LET q == last.query
            available == availableMatches(last.userId)
            bad == \/ (q.limit # <<>> /\ q.limit[1] < 1)
                   \/ (q.offset # <<>> /\ q.offset[1] < 0)
        IN /\ bad => (last.status = 400 /\ last.profiles = <<>>)
           /\ (~bad /\ UserExists(last.userId)) => last.status = 200
           /\ Len(last.profiles) <= 50
           /\ (last.status = 200 /\ q.offset = <<>>) =>
                 /\ q.limit = <<>> =>
                       last.profiles = SubSeq(available, 1, Min(20, Len(available)))
                 /\ (q.limit # <<>> /\ q.limit[1] > 50) =>
                       last.profiles = SubSeq(available, 1, Min(50, Len(available)))
                 /\ (q.limit # <<>> /\ q.limit[1] <= 50) =>
                       last.profiles = SubSeq(available, 1, Min(q.limit[1], Len(available)))

\* a request with limit 51 and no offset is answered with 50 profiles while
\* more than 50 are available
C17_Witness ==
    /\ IsDiscovery(last) /\ last.status = 200
    /\ last.query = [limit |-> <<MaxPageSize + 1>>, offset |-> <<>>]
    /\ Len(last.profiles) = 50
    /\ last.total > 50

\* the profiles a response of the discovery or of the legacy handler carries
Returned(q) ==
    IF "profiles" \in DOMAIN q THEN q.profiles
    ELSE IF "matches" \in DOMAIN q THEN q.matches
    ELSE <<>>

\* C18: every profile that Discover(userId) or the legacy GetMatches(userId)
\* returns has the role opposite to the requester's: a Mentor receives
\* Mentees only and a Mentee receives Mentors only.
C18_OppositeRoleOnly ==
    \A k \in 1..Len(Returned(last)) :
        /\ user_for_match[last.userId].role = "Mentor" => Returned(last)[k].role = "Mentee"
        /\ user_for_match[last.userId].role = "Mentee" => Returned(last)[k].role = "Mentor"

\* the legacy handler answers a repeated request from a connection row it
\* has appended to
C18_Witness ==
    /\ "route" \in DOMAIN last /\ last.route = "match"
    /\ Len(last.matches) >= 1
    /\ \E i \in 1..Len(connections) :
          /\ connections[i].initiator = last.userId
          /\ Len(connections[i].connections) > Len(last.matches)

\* C19: a Discover call, successful or failing, leaves the Swipe, Match and
\* Connection rows as they are, and a Discover call that follows a Discover
\* call with the same arguments, with no write in between, returns the same
\* result.
C19_DiscoverHasNoEffect ==
    [][DiscoverStep =>
          /\ user_swipes' = user_swipes
          /\ matches' = matches
          /\ connections' = connections
          /\ (IsDiscovery(last) /\ last'.userId = last.userId
                                /\ last'.query = last.query) => last' = last]_vars

\* a first page of one profile has been served, with more to come, from a
\* store that holds a Swipe row
C19_Witness ==
    /\ IsDiscovery(last) /\ last.status = 200
    /\ Len(last.profiles) = 1 /\ last.hasMore
    /\ user_swipes # {}

\* C20: a swipe request whose body lacks the profileId or carries an action
\* other than like and pass is answered as invalid input (400), and a swipe
\* request whose actor or target does not exist is answered NotFound (404);
\* in each case the step leaves the Swipe and the Match rows as they are and
\* the request is over.  A Discover with valid query parameters for a user
\* that does not exist is answered NotFound (404) with no profile.
C20_RejectedBeforeAnyWrite ==
    [][/\ (Arrived /\ (NewReq.profileId = MissingId
                       \/ NewReq.action \notin swipeActionSchema)) =>
             /\ NewReq.pc = "done" /\ NewReq.status = 400
             /\ user_swipes' = user_swipes /\ matches' = matches
       /\ (Arrived /\ NewReq.profileId # MissingId
                   /\ NewReq.action \in swipeActionSchema
                   /\ (NewReq.userId \notin DOMAIN user_for_match
                       \/ NewReq.profileId \notin DOMAIN user_for_match)) =>
             /\ NewReq.pc = "done" /\ NewReq.status = 404
             /\ user_swipes' = user_swipes /\ matches' = matches
       /\ (DiscoverStep /\ last'.userId \notin DOMAIN user_for_match
                               /\ (last'.query.limit = <<>> \/ last'.query.limit[1] >= 1)
                               /\ (last'.query.offset = <<>> \/ last'.query.offset[1] >= 0)) =>
             /\ last'.status = 404 /\ last'.profiles = <<>>
             /\ user_swipes' = user_swipes /\ matches' = matches
      ]_vars

\* a swipe on a profile that does not exist has been answered NotFound while
\* the store holds a Swipe row of the same actor
C20_Witness ==
    /\ last.pc = "done" /\ last.status = 404
    /\ last.error = "Profile not found"
    /\ \E s \in user_swipes : s.user = last.userId

\* C21: when the match check of a swipe request fails after the Swipe was
\* written (the matches create call is rejected), the request is answered
\* with a failure (500), the step leaves the Swipe rows as they are, and the
\* Swipe row of a request that was answered 500 is in user_swipes.
C21_FailedCheckKeepsSwipe ==
    /\ [](last.status = 500 => last.swipe \in user_swipes)
    /\ [][\A r \in Slots :
            (/\ req[r].pc = "createMatch"
             /\ req'[r] # req[r]
             /\ MatchesOfPair(req[r].userId, req[r].profileId) # {}) =>
                /\ last'.pc = "done" /\ last'.status = 500
                /\ SameRequest(req[r], last')
                /\ last'.match = NoMatch
                /\ user_swipes' = user_swipes
                /\ last'.swipe \in user_swipes']_vars

\* a like request has been answered 500 and its Swipe row is stored
C21_Witness ==
    /\ last.pc = "done" /\ last.status = 500
    /\ last.action = "like"
    /\ hasLiked(last.userId, last.profileId)

\* the users of the opposite role that are compatible with userId
CompatibleIds(userId) ==
    {i \in DOMAIN user_for_match :
        /\ user_for_match[i].role # user_for_match[userId].role
        /\ MatchesUser(user_for_match[userId], user_for_match[i])}
\* the Connection rows of an initiator
RowsOf(userId) == {i \in 1..Len(connections) : connections[i].initiator = userId}
\* the members of ids, each once, in ascending order, which is the order in
\* which the store lists the users
AscendingIds(list, ids) ==
    /\ {list[k] : k \in 1..Len(list)} = ids
    /\ \A j, k \in 1..Len(list) : j < k => list[j] < list[k]
\* the legacy handler in slot r makes its write in this step
Saves(r) == leg[r].pc = "save" /\ leg'[r] # leg[r]

\* C23: a legacy request that writes for a user without a Connection row
\* creates exactly one row, with that user as initiator and the ids of the
\* compatible candidates, each once, in pool order; no other row changes.
C23_FirstSaveCreatesRow ==
    [][\A r \in Slots :
          (Saves(r) /\ RowsOf(leg[r].userId) = {}) =>
             /\ Len(connections') = Len(connections) + 1
             /\ SubSeq(connections', 1, Len(connections)) = connections
             /\ connections'[Len(connections')].initiator = leg[r].userId
             /\ AscendingIds(connections'[Len(connections')].connections,
                             CompatibleIds(leg[r].userId))
             /\ CompatibleIds(leg[r].userId) # {}]_vars

\* the only Connection row lists two candidates
C23_Witness ==
    /\ Len(connections) = 1
    /\ Len(connections[1].connections) = 2
    /\ leg = [r \in Slots |-> IdleLeg]

\* how often id occurs in list
Occurrences(list, id) == Cardinality({k \in 1..Len(list) : list[k] = id})
\* the row the handler in slot r has read is still the stored row
SnapshotCurrent(r) ==
    /\ leg[r].existingConnection # NoConnection
    /\ connections[leg[r].existingConnection.id] = leg[r].existingConnection

C25_SecondRequestListsBoth ==
    [][\A r \in Slots :
          (/\ Saves(r) /\ SnapshotCurrent(r)
           /\ Len(leg[r].existingConnection.connections) = 1
           /\ Cardinality(CompatibleIds(leg[r].userId)) = 2
           /\ leg[r].existingConnection.connections[1]
                 \in CompatibleIds(leg[r].userId)
           /\ AscendingIds(leg[r].matchedUserIds, CompatibleIds(leg[r].userId))) =>
             LET new == connections'[leg[r].existingConnection.id].connections
             IN /\ Cardinality({i \in 1..Len(connections') :
                       connections'[i].initiator = leg[r].userId}) = 1
                /\ \A id \in CompatibleIds(leg[r].userId) :
                      \E k \in 1..Len(new) : new[k] = id
                /\ Len(new) = 2]_vars

\* C26: in every reachable state, whatever the interleaving of the legacy
\* requests, an initiator has at most one Connection row.
C26_OneRowPerInitiator ==
    \A i, j \in 1..Len(connections) :
        connections[i].initiator = connections[j].initiator => i = j

\* C27: every write to a Connection row leaves the list that was stored
\* before it as a prefix of the new list, in any sequence or interleaving of
\* legacy requests.
C27_ListOnlyGrows ==
    [][\A i \in 1..Len(connections) :
          /\ i <= Len(connections')
          /\ Len(connections[i].connections) <= Len(connections'[i].connections)
          /\ SubSeq(connections'[i].connections, 1, Len(connections[i].connections))
                = connections[i].connections]_vars

\* q is an answer of GET /match/:id
IsMatchAnswer(q) == "route" \in DOMAIN q /\ q.route = "match" /\ q.pc = "done"

\* C28: a legacy request for a user without a compatible candidate is
\* answered at once with success and an empty list of matches, and it
\* neither creates nor changes a Connection row nor leaves a write pending;
\* only a request of a user with a compatible candidate goes on to write.
C28_NoCandidateNoRow ==
    [][nreq' = nreq + 1 =>
          \/ /\ IsMatchAnswer(last') /\ last'.status = 404
             /\ ~UserExists(last'.userId)
             /\ connections' = connections /\ leg' = leg
          \/ /\ IsMatchAnswer(last') /\ last'.status = 200
             /\ UserExists(last'.userId)
             /\ CompatibleIds(last'.userId) = {}
             /\ last'.matches = <<>> /\ last'.error = ""
             /\ connections' = connections /\ leg' = leg
          \/ /\ last' = last /\ connections' = connections
             /\ \E r \in Slots :
                   /\ leg[r].pc = "idle" /\ leg'[r].pc = "save"
                   /\ CompatibleIds(leg'[r].userId) # {}
                   /\ \A r0 \in Slots : r0 # r => leg'[r0] = leg[r0]]_vars

\* a request of a user without a compatible candidate was answered with
\* success, and the collection holds no row of that user
C28_Witness ==
    /\ IsMatchAnswer(last) /\ last.status = 200
    /\ last.matches = <<>>
    /\ UserExists(last.userId) /\ CompatibleIds(last.userId) = {}
    /\ RowsOf(last.userId) = {}
    /\ nreq > 0

\* the ids of a list of users
IdSet(users) == {users[k].id : k \in 1..Len(users)}

\* C29: the legacy route and the discovery route use one compatibility
\* predicate, and only discovery leaves out swiped users: the ids a legacy
\* request computes are the compatible users of the opposite role, swiped or
\* not, and a discovery answer holds those of them the requester has no
\* Swipe on, so that the two sets are equal for a user without Swipes.
C29_SamePredicateNoExclusion ==
    /\ [](\A r \in Slots :
             leg[r].pc = "save" =>
                AscendingIds(leg[r].matchedUserIds, CompatibleIds(leg[r].userId)))
    /\ [][(DiscoverStep /\ last'.status = 200) =>
             /\ IdSet(last'.profiles) =
                   CompatibleIds(last'.userId) \ swipedProfileIds(last'.userId)
             /\ swipedProfileIds(last'.userId) = {} =>
                   IdSet(last'.profiles) = CompatibleIds(last'.userId)]_vars

\* a legacy request holds a candidate the requester has swiped on, and the
\* discovery answer to the same user leaves that candidate out
C29_Witness ==
    /\ IsDiscovery(last) /\ last.status = 200
    /\ \E r \in Slots :
          /\ leg[r].pc = "save" /\ leg[r].userId = last.userId
          /\ \E k \in 1..Len(leg[r].matchedUserIds) :
                /\ SwipeExists(last.userId, leg[r].matchedUserIds[k])
                /\ leg[r].matchedUserIds[k] \notin IdSet(last.profiles)

\* q is an answer of GET /users/:userId/likes/incoming
IsLikesAnswer(q) == "route" \in DOMAIN q /\ q.route = "likes" /\ q.pc = "done"
\* the users who like userId and on whom userId has no Swipe
PendingLikers(userId) ==
    {x \in DOMAIN user_for_match : hasLiked(x, userId) /\ ~SwipeExists(userId, x)}

\* C30: a successful answer to GetIncomingLikes(userId) lists exactly the
\* users who have a like Swipe on userId and on whom userId has no Swipe,
\* like or pass, each once and with likedAt the creation time of that like
\* Swipe, in descending order of likedAt, and count is the length of the list.
C30_IncomingLikes ==
    (IsLikesAnswer(last) /\ last.status = 200) =>
        /\ {last.likes[k].profile.id : k \in 1..Len(last.likes)}
              = PendingLikers(last.userId)
        /\ Len(last.likes) = Cardinality(PendingLikers(last.userId))
        /\ \A k \in 1..Len(last.likes) :
              [user |-> last.likes[k].profile.id, profile |-> last.userId,
               action |-> "like", created |-> last.likes[k].likedAt] \in user_swipes
        /\ \A j, k \in 1..Len(last.likes) :
              j < k => last.likes[j].likedAt >= last.likes[k].likedAt
        /\ last.count = Len(last.likes)

\* two users like the requester at different times, the later like comes
\* first although its user comes later in the store, and a third user, who
\* passed on the requester, is left out
C30_Witness ==
    /\ IsLikesAnswer(last) /\ last.status = 200
    /\ Len(last.likes) = 2
    /\ last.likes[1].likedAt > last.likes[2].likedAt
    /\ last.likes[1].profile.id > last.likes[2].profile.id
    /\ \E x \in DOMAIN user_for_match : hasPassed(x, last.userId)

\* q is an answer of GET /users/:userId/matches
IsMutualAnswer(q) == "route" \in DOMAIN q /\ q.route = "matches" /\ q.pc = "done"

\* C22: Swipe rows and Match rows are never changed or deleted: every step
\* of RecordSwipe, Discover, GetIncomingLikes, GetMutualMatches and the
\* legacy GetMatches leaves every stored Swipe and Match row in place, so
\* both collections only grow.
C22_RowsOnlyAdded ==
    [][/\ user_swipes \subseteq user_swipes'
       /\ matches \subseteq matches']_vars

\* two Swipe rows and their Match row are stored, and a read route has
\* answered with that match
C22_Witness ==
    /\ Cardinality(user_swipes) >= 2
    /\ matches # {}
    /\ IsMutualAnswer(last) /\ last.count >= 1

\* the Match rows userId is a party of
MatchRowsOf(userId) == {m \in matches : m.user1 = userId \/ m.user2 = userId}
\* the other party of the Match row m
Counterpart(m, userId) == IF m.user1 = userId THEN m.user2 ELSE m.user1

EntryIds(q, id) ==
    {q.matches[k].matchId : k \in {j \in 1..Len(q.matches) : q.matches[j].profile.id = id}}

\* C38: GetMutualMatches is symmetric: when the mutual matches of a user u
\* and then those of another user v are asked for over the same store and
\* both have a profile, v is in the answer to u exactly when u is in the
\* answer to v, and the two entries carry the same match id.
C38_MutualMatchesSymmetric ==
    [][(/\ IsMutualAnswer(last) /\ IsMutualAnswer(last')
        /\ matches' = matches
        /\ last.userId # last'.userId
        /\ UserExists(last.userId) /\ UserExists(last'.userId)) =>
           /\ EntryIds(last, last'.userId) = EntryIds(last', last.userId)
           /\ Cardinality(EntryIds(last, last'.userId)) <= 1]_vars

\* the second party of a match finds the first party in its answer, with the
\* id of their Match row
C38_Witness ==
    /\ IsMutualAnswer(last)
    /\ \E m \in matches :
          /\ m.user2 = last.userId
          /\ UserExists(m.user1)
          /\ EntryIds(last, m.user1) = {m.id}

\* q is an answer of POST /profiles
IsProfileAnswer(q) == "route" \in DOMAIN q /\ q.route = "profiles" /\ q.pc = "done"

\* C32: every stored profile has minAge <= maxAge; a creation request with
\* maxAge < minAge is answered as a bad request, stores nothing and leaves
\* no write pending; a request is answered as a bad request only when an age
\* is out of range or maxAge < minAge, so one with maxAge = minAge goes on,
\* and its write stores a row with the ages of the request.
C32_AgeOrderEnforced ==
    /\ [](\A p \in profilesCollection : p.minAge <= p.maxAge)
    /\ [][nreq' = nreq + 1 =>
             \/ /\ last' = last /\ profilesCollection' = profilesCollection
                /\ \E r \in Slots :
                      /\ prof[r].pc = "idle" /\ prof'[r].pc = "create"
                      /\ prof'[r].profileData[1].minAge <= prof'[r].profileData[1].maxAge
             \/ /\ IsProfileAnswer(last')
                /\ profilesCollection' = profilesCollection /\ prof' = prof
                /\ last'.body.maxAge < last'.body.minAge => last'.status = 400
                /\ last'.status = 400 =>
                      \/ last'.body.maxAge < last'.body.minAge
                      \/ ~AgeInRange(last'.body.minAge)
                      \/ ~AgeInRange(last'.body.maxAge)
                /\ last'.status # 201]_vars
    /\ [][\A r \in Slots :
             (prof[r].pc = "create" /\ prof'[r] # prof[r]) =>
                \/ /\ last'.status = 201
                   /\ profilesCollection' = profilesCollection \cup {last'.profile}
                   /\ last'.profile \notin profilesCollection
                   /\ last'.profile.minAge = last'.body.minAge
                   /\ last'.profile.maxAge = last'.body.maxAge
                \/ /\ last'.status = 409
                   /\ profilesCollection' = profilesCollection]_vars

\* a profile with minAge = maxAge is stored, and a request with
\* maxAge < minAge, both in range, has been answered as a bad request
C32_Witness ==
    /\ \E p \in profilesCollection : p.minAge = p.maxAge
    /\ IsProfileAnswer(last) /\ last.status = 400
    /\ last.body.maxAge < last.body.minAge
    /\ AgeInRange(last.body.maxAge)

\* a swipe request on the pair {u, v} is between its Swipe write and its end
InFlightOn(u, v) ==
    \E r \in Slots :
        /\ req[r].pc \in {"checkMutual", "createMatch"}
        /\ {req[r].userId, req[r].profileId} = {u, v}

\* C33: no mutual like is lost to interleaving: in every reachable state in
\* which both users of a pair have a like Swipe on each other and no request
\* on the pair is still running, the pair has a Match row.
C33_NoMutualLikeLost ==
    \A u \in UserIds : \A v \in UserIds :
        (hasLiked(u, v) /\ hasLiked(v, u) /\ ~InFlightOn(u, v)) =>
            MatchesOfPair(u, v) # {}

\* two likes from opposite directions overlapped: both requests wrote their
\* Swipe before either looked for the other's, both have ended, the one that
\* came second to the matches collection was answered 500, and the pair has
\* its Match row
C33_Witness ==
    /\ \A r \in Slots : req[r].pc = "idle"
    /\ last.pc = "done" /\ last.status = 500 /\ last.theirSwipe
    /\ last.userId # last.profileId
    /\ hasLiked(last.userId, last.profileId)
    /\ hasLiked(last.profileId, last.userId)
    /\ MatchesOfPair(last.userId, last.profileId) # {}

\* C34: while no Swipe is recorded and no user changes, a client that starts
\* at offset 0 with a fixed limit and follows nextOffset while hasMore is
\* true has, at the end of its walk, received the available list, every
\* profile once and in the order of the list; what it has received on the
\* way is the beginning of that list; and the walk ends.
C34_WalkCoversFeed ==
    /\ [](walk.pc = "ended" =>
             AscendingIds(walk.shown, AvailableIds(PageRequester)))
    /\ [](walk.pc = "walking" =>
             /\ \A j, k \in 1..Len(walk.shown) : j < k => walk.shown[j] < walk.shown[k]
             /\ \A k \in 1..Len(walk.shown) :
                   /\ walk.shown[k] \in AvailableIds(PageRequester)
                   /\ \A i \in AvailableIds(PageRequester) :
                         i < walk.shown[k] => \E j \in 1..k : walk.shown[j] = i)
    /\ <>(walk.pc = "ended")

\* a walk with pages of one profile has ended after more than two pages,
\* without the profiles the requester had swiped on before
C34_Witness ==
    /\ walk.pc = "ended" /\ walk.limit = 1
    /\ Len(walk.shown) > 2
    /\ user_swipes # {}

\* C35: a client that follows nextOffset while hasMore is true and swipes on
\* every profile of a page before it asks for the next one has been shown,
\* when its walk ends, every candidate that was available when it started:
\* the requester had no Swipe then, so these are the compatible users.
C35_SwipingWalkShowsAll ==
    (walk.swipes /\ walk.pc = "ended") =>
        \A c \in CompatibleIds(PageRequester) :
            \E k \in 1..Len(walk.shown) : walk.shown[k] = c

\* q is an answer of POST /users/:userId/swipes
IsSwipeAnswer(q) == "route" \notin DOMAIN q /\ q.pc = "done"

\* C36: incoming likes are exactly the pending matches: a like of userId on
\* a user that GetIncomingLikes(userId) has just listed returns a non-null
\* match, the pair has its Match row, and the liker is no longer one of the
\* incoming likes of userId.
C36_ListedLikerIsPendingMatch ==
    (IsSwipeAnswer(last) /\ last.userId = LikesRequester /\ last.action = "like") =>
        /\ last.status = 200
        /\ last.match # NoMatch
        /\ MatchesOfPair(LikesRequester, last.profileId) # {}
        /\ last.profileId \notin PendingLikers(LikesRequester)

\* this step is the answer of GET /users/:userId/likes/incoming that lists
\* the likers left after the filter
LikesStep == lk.pc = "filter" /\ lk'.pc = "idle" /\ IsLikesAnswer(last')

\* C37: a pair that has a Match row is hidden from both of its users: no
\* answer of Discover(u) and no answer of GetIncomingLikes(u) carries a user
\* v while a Match row of the pair (u, v) exists, whichever of the two is
\* user1.
C37_MatchedPairHidden ==
    [][/\ (DiscoverStep /\ last'.status = 200) =>
              \A k \in 1..Len(last'.profiles) : \A m \in matches' :
                  {m.user1, m.user2} # {last'.userId, last'.profiles[k].id}
       /\ LikesStep =>
              \A v \in ListedLikers(last') : \A m \in matches' :
                  {m.user1, m.user2} # {last'.userId, v}]_vars

\* two users have a Match row; one of them has been answered a feed without
\* the other, and the other's request for incoming likes has read the like
\* of the first and is about to filter it out
C37_Witness ==
    \E m \in matches :
        /\ m.user1 # m.user2
        /\ IsDiscovery(last) /\ last.status = 200
        /\ last.userId \in {m.user1, m.user2}
        /\ \A k \in 1..Len(last.profiles) : last.profiles[k].id \notin {m.user1, m.user2}
        /\ lk.pc = "filter"
        /\ {lk.userId, last.userId} = {m.user1, m.user2}
        /\ \E k \in 1..Len(lk.incomingLikes) : lk.incomingLikes[k].user = last.userId

\* a like request ends in this step, after its Swipe was written
LikeEnds ==
    \E r \in Slots : req[r].pc \in {"checkMutual", "createMatch"} /\ req'[r].pc = "idle"
\* v is in the feed of u as far as roles and the compatibility predicate go
InFeedOf(u, v) ==
    /\ user_for_match[u].role # user_for_match[v].role
    /\ MatchesUser(user_for_match[u], user_for_match[v])

\* C39: RecordSwipe consults neither the roles nor the compatibility
\* predicate: a valid request between two existing users who have no Swipe
\* on that ordered pair records the Swipe, whatever their roles and ages,
\* and a like request that ends while the reverse like exists leaves the
\* pair with a Match row.
C39_SwipeIgnoresCompatibility ==
    [][/\ (/\ Arrived
           /\ NewReq.userId \in DOMAIN user_for_match
           /\ NewReq.profileId \in DOMAIN user_for_match
           /\ NewReq.action \in swipeActionSchema
           /\ ~SwipeExists(NewReq.userId, NewReq.profileId)) =>
              /\ user_swipes' = user_swipes \cup
                    {[user |-> NewReq.userId, profile |-> NewReq.profileId,
                      action |-> NewReq.action, created |-> now]}
              /\ NewReq.status \in {0, 200}
       /\ (LikeEnds /\ hasLiked(last'.profileId, last'.userId)) =>
              \E m \in matches' : {m.user1, m.user2} = {last'.userId, last'.profileId}]_vars

\* two users who are in neither one's feed, of one role and with ages the
\* other does not accept, have liked each other and have their Match row
C39_Witness ==
    \E m \in matches :
        /\ m.user1 # m.user2
        /\ user_for_match[m.user1].role = user_for_match[m.user2].role
        /\ ~MatchesUser(user_for_match[m.user1], user_for_match[m.user2])
        /\ ~InFeedOf(m.user1, m.user2) /\ ~InFeedOf(m.user2, m.user1)
        /\ hasLiked(m.user1, m.user2) /\ hasLiked(m.user2, m.user1)
        /\ IsSwipeAnswer(last) /\ last.match # NoMatch

====
